---- MODULE Spec2Model ----
(***************************************************************************)
(* Range-prediction engine of btc-trading-bot (pages/api/analyze.js,       *)
(* "PRODUCTION QUANT RANGE PREDICTION ENGINE" revision).                   *)
(*                                                                         *)
(* JavaScript numbers are modelled in fixed point:                         *)
(*   prices           in units of 1/PriceScale  (0.001)                    *)
(*   dimensionless    in units of 1/RatioScale  (0.0001)                   *)
(*   volatilities     in units of 1/VolScale    (0.000001)                 *)
(*   ADX, +DI, -DI    in units of 1/PctScale    (0.01)                     *)
(*   volumes          in units of one million                              *)
(* together with the three IEEE-754 special values NaN, Infinity and       *)
(* -Infinity.  Every division, comparison, Math.min and Math.max of the    *)
(* source goes through an operator that implements the IEEE/ECMAScript     *)
(* rules for those values.  Negative zero is not distinguished from zero:  *)
(* every zero divisor in the source is a sum or difference that is +0.     *)
(***************************************************************************)
EXTENDS Integers, Sequences, FiniteSets, TLC

VARIABLES pc, marketData, candles, rangePredictions, marketAssessment,
          tradingZones, response, args, result,
          fetches, wsConnected, liquidationClusters,
          sockets, timers,
          data, loading, error, lastUpdate, calls

vars == <<pc, marketData, candles, rangePredictions, marketAssessment,
          tradingZones, response, args, result,
          fetches, wsConnected, liquidationClusters,
          sockets, timers,
          data, loading, error, lastUpdate, calls>>

\* the sockets made by connectLiquidationWS and its pending reconnect timers
socketVars == <<sockets, timers>>

\* the state of the dashboard component
dashboardVars == <<data, loading, error, lastUpdate, calls>>

\* the value null of an error that is not set
NoError == "null"

(***************************************************************************)
(* Number representation                                                   *)
(***************************************************************************)
PriceScale == 10 * 10 * 10
RatioScale == 10 * 10 * 10 * 10
PctScale == 10 * 10

Infinity == 2 * (10 ^ 9)
NegInfinity == 0 - Infinity
NaN == Infinity + 1

isFinite(x) == x # NaN /\ x # Infinity /\ x # NegInfinity

Abs(x) == IF x < 0 THEN 0 - x ELSE x

\* nearest integer to n / d, ties upward (d # 0)
RoundDiv(n, d) ==
    IF d > 0 THEN (n + d \div 2) \div d
    ELSE ((0 - n) + (0 - d) \div 2) \div (0 - d)

Neg(x) ==
    IF x = NaN THEN NaN
    ELSE IF x = Infinity THEN NegInfinity
    ELSE IF x = NegInfinity THEN Infinity
    ELSE 0 - x

\* a + b
Add(a, b) ==
    IF a = NaN \/ b = NaN THEN NaN
    ELSE IF a = Infinity THEN (IF b = NegInfinity THEN NaN ELSE Infinity)
    ELSE IF a = NegInfinity THEN (IF b = Infinity THEN NaN ELSE NegInfinity)
    ELSE IF b = Infinity \/ b = NegInfinity THEN b
    ELSE a + b

\* a - b
Sub(a, b) == Add(a, Neg(b))

Sign(x) == IF x > 0 THEN 1 ELSE IF x < 0 THEN 0 - 1 ELSE 0

\* floor(r * s / b) for 0 <= r < b and s a power of ten, digit by digit
RECURSIVE LongDiv(_, _, _)
LongDiv(r, b, s) ==
    IF s = 1 THEN 0
    ELSE ((r * 10) \div b) * (s \div 10) + LongDiv((r * 10) % b, b, s \div 10)

\* nearest integer to a * s / b for a >= 0, b > 0, without forming a * s
QuotScaled(a, b, s) ==
    RoundDiv((a \div b) * (s * 10) + LongDiv(a % b, b, s * 10), 10)

\* nearest integer to a * b / s for s <= 46340, without forming a * b
ProdScaled(a, b, s) ==
    LET ah == a \div s
        al == a % s
        bh == b \div s
        bl == b % s
    IN  a * bh + ah * bl + RoundDiv(al * bl, s)

\* a * (b / s): the product of a with a number b held at scale s
Mul(a, b, s) ==
    IF a = NaN \/ b = NaN THEN NaN
    ELSE IF isFinite(a) /\ isFinite(b) THEN ProdScaled(a, b, s)
    ELSE IF a = 0 \/ b = 0 THEN NaN
    ELSE IF Sign(a) = Sign(b) THEN Infinity ELSE NegInfinity

\* (a / b) held at scale s, for a and b of one common scale
Div(a, b, s) ==
    IF a = NaN \/ b = NaN THEN NaN
    ELSE IF isFinite(a) /\ isFinite(b) THEN
        IF b # 0 THEN Sign(a) * Sign(b) * QuotScaled(Abs(a), Abs(b), s)
        ELSE IF a = 0 THEN NaN
        ELSE IF a > 0 THEN Infinity ELSE NegInfinity
    ELSE IF ~isFinite(a) /\ ~isFinite(b) THEN NaN
    ELSE IF isFinite(a) THEN 0
    ELSE IF Sign(a) = Sign(b) \/ b = 0 THEN a ELSE Neg(a)

\* a < b and a > b: false as soon as one side is NaN
Lt(a, b) == a # NaN /\ b # NaN /\ a < b
Gt(a, b) == a # NaN /\ b # NaN /\ a > b

\* Math.min(a, b), Math.max(a, b), Math.abs(a)
Min2(a, b) == IF a = NaN \/ b = NaN THEN NaN ELSE IF a < b THEN a ELSE b
Max2(a, b) == IF a = NaN \/ b = NaN THEN NaN ELSE IF a > b THEN a ELSE b
MathAbs(x) == IF x = NaN THEN NaN ELSE IF x = NegInfinity THEN Infinity ELSE Abs(x)

\* Math.min(...xs) and Math.max(...xs); Infinity and -Infinity when xs is empty
RECURSIVE MathMin(_)
MathMin(xs) == IF xs = <<>> THEN Infinity ELSE Min2(Head(xs), MathMin(Tail(xs)))
RECURSIVE MathMax(_)
MathMax(xs) == IF xs = <<>> THEN NegInfinity ELSE Max2(Head(xs), MathMax(Tail(xs)))

\* parseFloat(x.toFixed(k)) for x held at scale 10^k * step: x rounded to a
\* multiple of step, ties away from zero; NaN and the infinities print and
\* parse back as themselves
toFixed(x, step) ==
    IF ~isFinite(x) THEN x
    ELSE IF x >= 0 THEN ((x + step \div 2) \div step) * step
    ELSE 0 - ((((0 - x) + step \div 2) \div step) * step)

\* floor(sqrt(n)) for 0 <= n < 2^31
RECURSIVE SqrtSearch(_, _, _)
SqrtSearch(n, lo, hi) ==
    IF lo >= hi THEN lo
    ELSE LET mid == (lo + hi + 1) \div 2
         IN IF mid * mid <= n THEN SqrtSearch(n, mid, hi)
            ELSE SqrtSearch(n, lo, mid - 1)
MathSqrt(n) == IF n = NaN THEN NaN ELSE SqrtSearch(n, 0, 46340)

\* array helpers: xs.slice(-k), xs.slice(a, b) with 0-based a <= b, sum
SliceLast(xs, k) ==
    IF Len(xs) <= k THEN xs ELSE SubSeq(xs, Len(xs) - k + 1, Len(xs))
Slice(xs, a, b) ==
    LET lo == IF a < 0 THEN (IF Len(xs) + a < 0 THEN 0 ELSE Len(xs) + a) ELSE a
        hi == IF b < 0 THEN (IF Len(xs) + b < 0 THEN 0 ELSE Len(xs) + b)
              ELSE (IF b > Len(xs) THEN Len(xs) ELSE b)
    IN  IF lo >= hi THEN <<>> ELSE SubSeq(xs, lo + 1, hi)
\* xs[lo] + ... + xs[hi], by halves
RECURSIVE SumRange(_, _, _)
SumRange(xs, lo, hi) ==
    IF lo > hi THEN 0
    ELSE IF lo = hi THEN xs[lo]
    ELSE SumRange(xs, lo, (lo + hi) \div 2) + SumRange(xs, (lo + hi) \div 2 + 1, hi)
Sum(xs) == SumRange(xs, 1, Len(xs))

(***************************************************************************)
(* Trading zones                                                           *)
(***************************************************************************)
\* position < k/100 where position = (price - low) / width, evaluated as the
\* quotient of the source followed by its comparison
PositionBelow(price, low, width, k) ==
    LET num == Sub(price, low)
    IN  IF num = NaN \/ width = NaN THEN FALSE
        ELSE IF width = 0 THEN num < 0
        ELSE IF width > 0 THEN num * 100 < k * width
        ELSE num * 100 > k * width

\* variant: the position is taken against high instead of width
determineCurrentZoneByHigh(price, low, high, width) ==
    IF PositionBelow(price, low, high, 15) THEN "Strong Buy Zone"
    ELSE IF PositionBelow(price, low, high, 35) THEN "Buy Zone"
    ELSE IF PositionBelow(price, low, high, 65) THEN "Neutral Zone"
    ELSE IF PositionBelow(price, low, high, 85) THEN "Sell Zone"
    ELSE "Strong Sell Zone"

\* variant: the position is the distance from low, Math.abs((price - low) / width)
determineCurrentZoneAbs(price, low, high, width) ==
    LET far == Add(low, MathAbs(Sub(price, low)))
        span == MathAbs(width)
    IN  IF PositionBelow(far, low, span, 15) THEN "Strong Buy Zone"
        ELSE IF PositionBelow(far, low, span, 35) THEN "Buy Zone"
        ELSE IF PositionBelow(far, low, span, 65) THEN "Neutral Zone"
        ELSE IF PositionBelow(far, low, span, 85) THEN "Sell Zone"
        ELSE "Strong Sell Zone"

determineCurrentZone(price, low, high, width) ==
    IF PositionBelow(price, low, width, 15) THEN "Strong Buy Zone"
    ELSE IF PositionBelow(price, low, width, 35) THEN "Buy Zone"
    ELSE IF PositionBelow(price, low, width, 65) THEN "Neutral Zone"
    ELSE IF PositionBelow(price, low, width, 85) THEN "Sell Zone"
    ELSE "Strong Sell Zone"

\* zone boundary parseFloat((low + width * f).toFixed(2)) with f = pct / 100
zoneEdge(low, width, pct) ==
    toFixed(Add(low, Mul(width, pct, 100)), PriceScale \div 100)

\* variant: the buy zone starts at 16% of the width
generateTradingZonesGap(rangePrediction, currentPrice) ==
    LET low == rangePrediction.range.low
        high == rangePrediction.range.high
        width == Sub(high, low)
    IN  [strongBuyZone |-> [low |-> toFixed(low, PriceScale \div 100),
                            high |-> zoneEdge(low, width, 15)],
         buyZone |-> [low |-> zoneEdge(low, width, 16),
                      high |-> zoneEdge(low, width, 35)],
         neutralZone |-> [low |-> zoneEdge(low, width, 35),
                          high |-> zoneEdge(low, width, 65)],
         sellZone |-> [low |-> zoneEdge(low, width, 65),
                       high |-> zoneEdge(low, width, 85)],
         strongSellZone |-> [low |-> zoneEdge(low, width, 85),
                             high |-> toFixed(high, PriceScale \div 100)],
         currentZone |-> determineCurrentZone(currentPrice, low, high, width)]

generateTradingZones(rangePrediction, currentPrice) ==
    LET low == rangePrediction.range.low
        high == rangePrediction.range.high
        width == Sub(high, low)
    IN  [strongBuyZone |-> [low |-> toFixed(low, PriceScale \div 100),
                            high |-> zoneEdge(low, width, 15)],
         buyZone |-> [low |-> zoneEdge(low, width, 15),
                      high |-> zoneEdge(low, width, 35)],
         neutralZone |-> [low |-> zoneEdge(low, width, 35),
                          high |-> zoneEdge(low, width, 65)],
         sellZone |-> [low |-> zoneEdge(low, width, 65),
                       high |-> zoneEdge(low, width, 85)],
         strongSellZone |-> [low |-> zoneEdge(low, width, 85),
                             high |-> toFixed(high, PriceScale \div 100)],
         currentZone |-> determineCurrentZone(currentPrice, low, high, width)]

(***************************************************************************)
(* Technical indicator helpers                                             *)
(***************************************************************************)
closesOf(cs) == [i \in 1..Len(cs) |-> cs[i].close]
highsOf(cs) == [i \in 1..Len(cs) |-> cs[i].high]
lowsOf(cs) == [i \in 1..Len(cs) |-> cs[i].low]
volumesOf(cs) == [i \in 1..Len(cs) |-> cs[i].volume]

\* the exponential moving average of prices started at seed, the mean of the
\* first period prices, and updated with each later price
emaLoop(prices, period, seed) ==
    LET RECURSIVE ema(_)
        ema(i) == IF i <= period THEN seed
                  ELSE ((2 * prices[i] + (period - 1) * ema(i - 1)) + (period + 1) \div 2)
                       \div (period + 1)
    IN  ema(Len(prices))

\* exponential moving average of prices; the last price when the series is
\* shorter than period
calculateEMA(prices, period) ==
    IF Len(prices) < period THEN prices[Len(prices)]
    ELSE emaLoop(prices, period, RoundDiv(Sum(SubSeq(prices, 1, period)), period))

\* calculateEMA of the WebSocket revision: no guard for a short series, the
\* seed is the sum of at most period prices divided by period
calculateEMALive(prices, period) ==
    emaLoop(prices, period, RoundDiv(Sum(Slice(prices, 0, period)), period))

\* calculateEMA of the "FIXED VERSION" revision: guarded like calculateEMA,
\* and rounded to two decimals on the full path
calculateEMAFixed(prices, period) ==
    IF Len(prices) < period THEN prices[Len(prices)]
    ELSE toFixed(emaLoop(prices, period,
                         RoundDiv(Sum(SubSeq(prices, 1, period)), period)),
                 PriceScale \div 100)

\* true range of candle i against the close before it
trueRange(highs, lows, closes, i) ==
    LET a == highs[i] - lows[i]
        b == Abs(highs[i] - closes[i - 1])
        c == Abs(lows[i] - closes[i - 1])
    IN  IF a >= b /\ a >= c THEN a ELSE IF b >= c THEN b ELSE c

\* simplified single-window ADX, at PctScale; NaN when the true range or
\* +DI + -DI is zero
calculateADX(highs, lows, closes, period) ==
    LET last == IF period + 1 < Len(closes) THEN period + 1 ELSE Len(closes)
        idx == 2..last
        highDiff(i) == highs[i] - highs[i - 1]
        lowDiff(i) == lows[i - 1] - lows[i]
        plusAt(i) == IF highDiff(i) > 0 /\ highDiff(i) > lowDiff(i)
                     THEN highDiff(i) ELSE 0
        minusAt(i) == IF lowDiff(i) > 0 /\ lowDiff(i) > highDiff(i)
                      THEN lowDiff(i) ELSE 0
        plusDM == Sum([k \in 1..(last - 1) |-> plusAt(k + 1)])
        minusDM == Sum([k \in 1..(last - 1) |-> minusAt(k + 1)])
        tr == Sum([k \in 1..(last - 1) |-> trueRange(highs, lows, closes, k + 1)])
        plusDI == Div(plusDM * 100, tr, PctScale)
        minusDI == Div(minusDM * 100, tr, PctScale)
        dx == Mul(Div(MathAbs(Sub(plusDI, minusDI)), Add(plusDI, minusDI), RatioScale),
                  100 * PctScale, RatioScale)
    IN  dx

\* mean of the squared deviations of xs from m, each term divided before the
\* sum so that the sum stays within the integer range
meanSquare(xs, m, n) ==
    Sum([i \in 1..Len(xs) |-> RoundDiv((xs[i] - m) * (xs[i] - m), n)])

\* Bollinger band width: 4 standard deviations of the last period closes
calculateBBWidth(closes, period) ==
    IF Len(closes) < period THEN 0
    ELSE LET recent == SliceLast(closes, period)
             sma == RoundDiv(Sum(recent), period)
             variance == meanSquare(recent, sma, period)
             stdDev == MathSqrt(variance)
         IN  stdDev * 4

\* variant: every change is counted among the losses
calculateRSIAllLosses(prices, period) ==
    IF Len(prices) < period + 1 THEN 50 * 10
    ELSE LET change(i) == prices[i + 1] - prices[i]
             gains == Sum([i \in 1..period |->
                            IF change(i) > 0 THEN change(i) ELSE 0])
             losses == Sum([i \in 1..period |-> Abs(change(i))])
         IN  IF losses = 0 THEN 100 * 10
             ELSE 100 * 10 - RoundDiv(100 * 10 * losses, losses + gains)

\* first-window RSI at scale 10 (one decimal)
calculateRSI(prices, period) ==
    IF Len(prices) < period + 1 THEN 50 * 10
    ELSE LET change(i) == prices[i + 1] - prices[i]
             gains == Sum([i \in 1..period |->
                            IF change(i) > 0 THEN change(i) ELSE 0])
             losses == Sum([i \in 1..period |->
                             IF change(i) > 0 THEN 0 ELSE 0 - change(i)])
         IN  IF losses = 0 THEN 100 * 10
             ELSE 100 * 10 - RoundDiv(100 * 10 * losses, losses + gains)

(***************************************************************************)
(* Step 1: market regime detection                                         *)
(***************************************************************************)
\* the classification by ADX alone, as detectRegime holds it before it looks
\* at the Bollinger width
classifyByADX(cs) ==
    LET classified(closes, adx) ==
          IF Gt(adx, 25 * PctScale)
          THEN [type |-> "trend",
                strength |-> Min2(Div(Sub(adx, 25 * PctScale), 25 * PctScale, RatioScale),
                                  RatioScale),
                direction |-> IF calculateEMA(closes, 20) > calculateEMA(closes, 50)
                              THEN "up" ELSE "down"]
          ELSE IF Lt(adx, 20 * PctScale)
          THEN [type |-> "range",
                strength |-> Min2(Div(Sub(20 * PctScale, adx), 20 * PctScale, RatioScale),
                                  RatioScale),
                direction |-> "neutral"]
          ELSE [type |-> "range", strength |-> RatioScale \div 2, direction |-> "neutral"]
    IN  classified(closesOf(cs),
                   calculateADX(highsOf(cs), lowsOf(cs), closesOf(cs), 14))

\* variant: the expansion and compression strengths are not re-centred by 0.5
detectRegimeUncentred(cs) ==
    LET closes == closesOf(cs)
        adx == calculateADX(highsOf(cs), lowsOf(cs), closes, 14)
        bbWidth == calculateBBWidth(closes, 20)
        avgBBWidth == RoundDiv(closes[Len(closes)] * 4, 100)
        expandAt == RoundDiv(avgBBWidth * 13, 10)
        compressAt == RoundDiv(avgBBWidth * 7, 10)
        isTrend == Gt(adx, 25 * PctScale)
        isQuiet == ~isTrend /\ Lt(adx, 20 * PctScale)
        adxType == IF isTrend THEN "trend" ELSE "range"
        adxStrength ==
            IF isTrend
            THEN Min2(Div(Sub(adx, 25 * PctScale), 25 * PctScale, RatioScale), RatioScale)
            ELSE IF isQuiet
            THEN Min2(Div(Sub(20 * PctScale, adx), 20 * PctScale, RatioScale), RatioScale)
            ELSE RatioScale \div 2
        direction ==
            IF isTrend
            THEN (IF calculateEMA(closes, 20) > calculateEMA(closes, 50)
                  THEN "up" ELSE "down")
            ELSE "neutral"
        expansion == bbWidth > expandAt
        compression == ~expansion /\ bbWidth < compressAt
        regimeType == IF expansion THEN "expansion"
                      ELSE IF compression THEN "compression" ELSE adxType
        strength ==
            IF expansion
            THEN Min2(Div(bbWidth, expandAt, RatioScale), (RatioScale * 3) \div 2)
            ELSE IF compression
            THEN Min2(Div(compressAt, bbWidth, RatioScale), (RatioScale * 3) \div 2)
            ELSE adxStrength
    IN  [type |-> regimeType,
         strength |-> toFixed(strength, RatioScale \div 100),
         direction |-> direction,
         adx |-> toFixed(adx, PctScale \div 10),
         bbWidth |-> toFixed(bbWidth, PriceScale \div 100)]

detectRegime(cs) ==
    LET closes == closesOf(cs)
        adx == calculateADX(highsOf(cs), lowsOf(cs), closes, 14)
        bbWidth == calculateBBWidth(closes, 20)
        avgBBWidth == RoundDiv(closes[Len(closes)] * 4, 100)
        expandAt == RoundDiv(avgBBWidth * 13, 10)
        compressAt == RoundDiv(avgBBWidth * 7, 10)
        isTrend == Gt(adx, 25 * PctScale)
        isQuiet == ~isTrend /\ Lt(adx, 20 * PctScale)
        adxType == IF isTrend THEN "trend" ELSE "range"
        adxStrength ==
            IF isTrend
            THEN Min2(Div(Sub(adx, 25 * PctScale), 25 * PctScale, RatioScale), RatioScale)
            ELSE IF isQuiet
            THEN Min2(Div(Sub(20 * PctScale, adx), 20 * PctScale, RatioScale), RatioScale)
            ELSE RatioScale \div 2
        direction ==
            IF isTrend
            THEN (IF calculateEMA(closes, 20) > calculateEMA(closes, 50)
                  THEN "up" ELSE "down")
            ELSE "neutral"
        expansion == bbWidth > expandAt
        compression == ~expansion /\ bbWidth < compressAt
        regimeType == IF expansion THEN "expansion"
                      ELSE IF compression THEN "compression" ELSE adxType
        strength ==
            IF expansion
            THEN Sub(Min2(Div(bbWidth, expandAt, RatioScale), (RatioScale * 3) \div 2),
                     RatioScale \div 2)
            ELSE IF compression
            THEN Sub(Min2(Div(compressAt, bbWidth, RatioScale), (RatioScale * 3) \div 2),
                     RatioScale \div 2)
            ELSE adxStrength
    IN  [type |-> regimeType,
         strength |-> toFixed(strength, RatioScale \div 100),
         direction |-> direction,
         adx |-> toFixed(adx, PctScale \div 10),
         bbWidth |-> toFixed(bbWidth, PriceScale \div 100)]

(***************************************************************************)
(* Step 2: realized volatility                                             *)
(***************************************************************************)
LogScale == RatioScale * RatioScale
VolScale == LogScale \div 100

\* a * v for a volatility v held at VolScale
MulVol(a, v) == Mul(Mul(a, v, PriceScale), 1, VolScale \div PriceScale)

\* Math.log(a / b) at LogScale for closes a, b > 0, by the leading term
\* 2 (a - b) / (a + b) of its series in (a - b) / (a + b)
MathLogRatio(a, b) == Div(2 * (a - b), a + b, LogScale)

\* variance of the log returns about mean, at LogScale
returnVariance(returns, mean, n) ==
    RoundDiv(Sum([i \in 1..Len(returns) |->
                    ProdScaled(returns[i] - mean, returns[i] - mean, RatioScale)]), n)

\* standard deviation of the log returns of the last lookback closes,
\* annualized by sqrt(365 * 24) = 93.59; at VolScale.  The variance is held
\* at RatioScale ^ 3 and the standard deviation at ten times VolScale.
calculateRealizedVolatility(cs, lookback) ==
    LET recent == SliceLast(cs, lookback)
        n == IF Len(recent) = 0 THEN 0 ELSE Len(recent) - 1
        returns == [i \in 1..n |-> MathLogRatio(recent[i + 1].close, recent[i].close)]
    IN  IF n = 0 THEN NaN
        ELSE LET mean == RoundDiv(Sum(returns), n)
                 variance == returnVariance(returns, mean, n)
                 stdDev == MathSqrt(variance * 100)
             IN  RoundDiv(stdDev * 9359, 10 * 100)

regimeMultiplier(type) ==
    IF type = "trend" THEN 120
    ELSE IF type = "range" THEN 85
    ELSE IF type = "expansion" THEN 140
    ELSE IF type = "compression" THEN 70
    ELSE 100

\* sqrt(horizonHours / lookbackHours) at RatioScale
sqrtTimeRatio(horizonHours, lookbackHours) ==
    MathSqrt(((horizonHours * (RatioScale \div 2) * (RatioScale \div 2))
              \div lookbackHours) * 4)

\* variant: the time scaling is left out
projectVolatilityUnscaled(realizedVol, horizonHours, lookbackHours, regime) ==
    Mul(realizedVol, regimeMultiplier(regime.type), 100)

projectVolatility(realizedVol, horizonHours, lookbackHours, regime) ==
    Mul(Mul(realizedVol, sqrtTimeRatio(horizonHours, lookbackHours), RatioScale),
        regimeMultiplier(regime.type), 100)

(***************************************************************************)
(* Step 3: market structure                                                *)
(***************************************************************************)
\* values prices[i] that equal the maximum (minimum) of the window of
\* lookback = 5 values on each side, in time order
RECURSIVE swingLoop(_, _, _, _)
swingLoop(prices, type, i, acc) ==
    IF i > Len(prices) - 5 THEN acc
    ELSE LET window == SubSeq(prices, i - 5, i + 5)
             hit == IF type = "high" THEN prices[i] = MathMax(window)
                    ELSE prices[i] = MathMin(window)
         IN  swingLoop(prices, type, i + 1,
                       IF hit THEN Append(acc, prices[i]) ELSE acc)

findSwingPoints(prices, type) == swingLoop(prices, type, 6, <<>>)

typicalPrice(c) == RoundDiv(c.high + c.low + c.close, 3)

calculateVWAP(cs) ==
    Div(Sum([i \in 1..Len(cs) |-> typicalPrice(cs[i]) * cs[i].volume]),
        Sum(volumesOf(cs)), 1)

calculateVWAPStdDev(cs, vwap) ==
    LET sumV == Sum(volumesOf(cs))
    IN  IF sumV = 0 \/ vwap = NaN THEN NaN
        ELSE MathSqrt(Sum([i \in 1..Len(cs) |->
                 RoundDiv((typicalPrice(cs[i]) - vwap) * (typicalPrice(cs[i]) - vwap)
                          * cs[i].volume, sumV)]))

findMarketStructure(cs) ==
    LET session == SliceLast(cs, 24)
        swingHighs == findSwingPoints(highsOf(cs), "high")
        swingLows == findSwingPoints(lowsOf(cs), "low")
        vwap == calculateVWAP(session)
        vwapStdDev == calculateVWAPStdDev(session, vwap)
    IN  [sessionHigh |-> MathMax(highsOf(session)),
         sessionLow |-> MathMin(lowsOf(session)),
         swingHighs |-> SliceLast(swingHighs, 3),
         swingLows |-> SliceLast(swingLows, 3),
         vwap |-> vwap,
         vwapUpper1 |-> Add(vwap, vwapStdDev),
         vwapUpper2 |-> Add(vwap, Mul(vwapStdDev, 2, 1)),
         vwapLower1 |-> Sub(vwap, vwapStdDev),
         vwapLower2 |-> Sub(vwap, Mul(vwapStdDev, 2, 1))]

(***************************************************************************)
(* Step 4: momentum                                                        *)
(***************************************************************************)
\* average true range of candles 2..n of cs, in tenths of a price unit
calculateATR(cs, period) ==
    LET n == IF Len(cs) = 0 THEN 0 ELSE Len(cs) - 1
        trs == [i \in 1..n |->
                  trueRange(highsOf(cs), lowsOf(cs), closesOf(cs), i + 1)]
    IN  Div(Sum(trs), n, 10)

clampUnit(x) == Max2(0 - RatioScale, Min2(RatioScale, x))

\* slope of the last periods closes over the ATR of the last periods candles,
\* clamped to [-1, 1]; at RatioScale.  The slope priceChange / periods is held
\* in units of 1 / periods of a price unit, the ATR in tenths.
calculateMomentum(cs, periods) ==
    LET recent == SliceLast(closesOf(cs), periods + 1)
        priceChange == recent[Len(recent)] - recent[1]
        atr == calculateATR(SliceLast(cs, periods), periods)
        normalized == Div(priceChange * 10, Mul(atr, periods, 1), RatioScale)
    IN  clampUnit(normalized)

(***************************************************************************)
(* Anchoring, confidence, volatility state, invalidations                  *)
(***************************************************************************)
\* variant: supports just above the bound are taken instead of those below
anchorToSupportInward(price, structure, maxAdjustment) ==
    LET tolerance == Mul(maxAdjustment, 25, 100)
        Near(s) == Gt(s, price) /\ Lt(s, Add(price, tolerance))
        supports == SelectSeq(<<structure.sessionLow>> \o structure.swingLows
                              \o <<structure.vwapLower1, structure.vwapLower2>>, Near)
    IN  IF Len(supports) > 0 THEN MathMax(supports) ELSE price

\* variant: supports up to the whole of maxAdjustment below the bound are taken
anchorToSupportFar(price, structure, maxAdjustment) ==
    LET tolerance == maxAdjustment
        Near(s) == Lt(s, price) /\ Gt(s, Sub(price, tolerance))
        supports == SelectSeq(<<structure.sessionLow>> \o structure.swingLows
                           \o <<structure.vwapLower1, structure.vwapLower2>>, Near)
    IN  IF Len(supports) > 0 THEN MathMin(supports) ELSE price

anchorToSupport(price, structure, maxAdjustment) ==
    LET tolerance == Mul(maxAdjustment, 25, 100)
        Near(s) == Lt(s, price) /\ Gt(s, Sub(price, tolerance))
        supports == SelectSeq(<<structure.sessionLow>> \o structure.swingLows
                           \o <<structure.vwapLower1, structure.vwapLower2>>, Near)
    IN  IF Len(supports) > 0 THEN MathMax(supports) ELSE price

anchorToResistance(price, structure, maxAdjustment) ==
    LET tolerance == Mul(maxAdjustment, 25, 100)
        Near(r) == Gt(r, price) /\ Lt(r, Add(price, tolerance))
        resistances == SelectSeq(<<structure.sessionHigh>> \o structure.swingHighs
                              \o <<structure.vwapUpper1, structure.vwapUpper2>>, Near)
    IN  IF Len(resistances) > 0 THEN MathMin(resistances) ELSE price

\* average volume of the last k candles (sum / k), in thousandths of a volume unit
averageVolume(cs, k) == RoundDiv(Sum(volumesOf(SliceLast(cs, k))) * 1000, k)

calculateConfidence(cs, regime, structure, currentPrice) ==
    LET recentVol == calculateRealizedVolatility(SliceLast(cs, 12), 12)
        olderVol == calculateRealizedVolatility(Slice(cs, 0 - 24, 0 - 12), 12)
        volStability ==
            Sub(RatioScale, Div(MathAbs(Sub(recentVol, olderVol)), olderVol, RatioScale))
        c1 == Add((RatioScale * 70) \div 100,
                  Mul(Sub(volStability, RatioScale \div 2), 3, 10))
        c2 == Add(c1, Mul(Sub(regime.strength, RatioScale \div 2), 2, 10))
        nearSupport == Gt(MathMin(structure.swingLows), RoundDiv(currentPrice * 98, 100))
        nearResistance == Lt(MathMax(structure.swingHighs), RoundDiv(currentPrice * 102, 100))
        c3 == IF nearSupport \/ nearResistance
              THEN Add(c2, (RatioScale * 10) \div 100) ELSE c2
        avgVolume == averageVolume(cs, 24)
        recentVolume == averageVolume(cs, 6)
        c4 == IF recentVolume > RoundDiv(avgVolume * 12, 10)
              THEN Add(c3, (RatioScale * 5) \div 100)
              ELSE IF recentVolume < RoundDiv(avgVolume * 8, 10)
              THEN Sub(c3, (RatioScale * 5) \div 100)
              ELSE c3
    IN  Max2((RatioScale * 40) \div 100, Min2((RatioScale * 95) \div 100, c4))

classifyVolatility(realizedVol, cs) ==
    LET volHistory == [k \in 1..(Len(cs) - 24) |->
                          calculateRealizedVolatility(SubSeq(cs, k, k + 23), 24)]
        below == Cardinality({k \in 1..Len(volHistory) : Lt(volHistory[k], realizedVol)})
        percentile == Div(below, Len(volHistory), RatioScale)
    IN  IF Lt(percentile, (RatioScale * 33) \div 100) THEN "low"
        ELSE IF Gt(percentile, (RatioScale * 67) \div 100) THEN "high"
        ELSE "normal"

\* the figures printed into the invalidation texts
generateInvalidations(low, high, vol, horizon, cs) ==
    [hard |-> [breakLow |-> toFixed(Mul(low, 97, 100), PriceScale),
               breakHigh |-> toFixed(Mul(high, 103, 100), PriceScale),
               volSpike |-> toFixed(Mul(vol, 2, 1), VolScale \div 1000),
               volumeLimit |-> toFixed(averageVolume(cs, 24) * 5, 100)],
     soft |-> [timeLimit |-> horizon * 2]]

(***************************************************************************)
(* Main range calculation engine                                           *)
(***************************************************************************)
widthMultiplier(type) ==
    IF type = "expansion" THEN 135
    ELSE IF type = "compression" THEN 75
    ELSE IF type = "trend" THEN 115
    ELSE IF type = "range" THEN 90
    ELSE 100

\* steps 1 to 9 of calculatePriceRange: the range before and after anchoring.
\* Each group of the function's consts is bound once, as the parameters of
\* the operator applied to it.
projectRange(cs, currentPrice, horizonHours) ==
    LET measured(regime, realizedVol, structure, momentum) ==
          LET sized(projectedVol, skewFactor) ==
                LET centred(centerPrice, adjustedWidth) ==
                      LET bounded(initialLow, initialHigh) ==
                            [regime |-> regime, realizedVol |-> realizedVol,
                             projectedVol |-> projectedVol, structure |-> structure,
                             momentum |-> momentum, centerPrice |-> centerPrice,
                             adjustedWidth |-> adjustedWidth,
                             initialLow |-> initialLow, initialHigh |-> initialHigh,
                             rangeLow |-> anchorToSupport(initialLow, structure,
                                                          adjustedWidth),
                             rangeHigh |-> anchorToResistance(initialHigh, structure,
                                                              adjustedWidth)]
                      IN  bounded(Sub(centerPrice, Div(adjustedWidth, 2, 1)),
                                  Add(centerPrice, Div(adjustedWidth, 2, 1)))
                IN  centred(Mul(currentPrice, Add(RatioScale, skewFactor), RatioScale),
                            Mul(Mul(MulVol(currentPrice, projectedVol), 165, 100),
                                widthMultiplier(regime.type), 100))
          IN  sized(projectVolatility(realizedVol, horizonHours, 24, regime),
                    Mul(momentum, 12, 100))
    IN  measured(detectRegime(cs), calculateRealizedVolatility(cs, 24),
                 findMarketStructure(cs), calculateMomentum(cs, 10))

\* variant: the range is widened by one cent for every buffered liquidation
\* cluster
calculatePriceRangeBuffered(cs, currentPrice, horizonHours) ==
    LET widened(p) ==
          [horizonHours |-> horizonHours,
           range |-> [low |-> p.rangeLow,
                      high |-> Add(p.rangeHigh,
                                   Len(liquidationClusters) * (PriceScale \div 100)),
                      center |-> p.centerPrice,
                      width |-> Sub(p.rangeHigh, p.rangeLow),
                      widthPercent |-> 0],
           confidence |-> calculateConfidence(cs, p.regime, p.structure, currentPrice),
           volatility |-> [state |-> classifyVolatility(p.realizedVol, cs),
                           realized |-> p.realizedVol, projected |-> p.projectedVol],
           regime |-> p.regime,
           momentum |-> [value |-> p.momentum, bias |-> "neutral"],
           invalidations |-> generateInvalidations(p.rangeLow, p.rangeHigh,
                                                   p.realizedVol, horizonHours, cs),
           trace |-> <<>>]
    IN  widened(projectRange(cs, currentPrice, horizonHours))

\* variant: the centre of the range drifts by one cent per hour of horizon
calculatePriceRangeDrifting(cs, currentPrice, horizonHours) ==
    LET scored(p) ==
          LET packed(confidence, bias, width) ==
                [horizonHours |-> horizonHours,
                 range |-> [low |-> toFixed(p.rangeLow, PriceScale \div 100),
                            high |-> toFixed(p.rangeHigh, PriceScale \div 100),
                            center |-> toFixed(Add(p.centerPrice, horizonHours * 10),
                                              PriceScale \div 100),
                            width |-> toFixed(width, PriceScale \div 100),
                            widthPercent |-> Div(Mul(width, 100, 1), currentPrice,
                                                 PctScale)],
                 confidence |-> toFixed(confidence, RatioScale \div 1000),
                 volatility |-> [state |-> classifyVolatility(p.realizedVol, cs),
                                 realized |-> toFixed(p.realizedVol, VolScale \div 10000),
                                 projected |-> toFixed(p.projectedVol,
                                                       VolScale \div 10000)],
                 regime |-> p.regime,
                 momentum |-> [value |-> toFixed(p.momentum, RatioScale \div 1000),
                               bias |-> bias],
                 invalidations |-> generateInvalidations(p.rangeLow, p.rangeHigh,
                                                         p.realizedVol, horizonHours, cs),
                 \* the pre-anchoring figures, kept beside the returned record
                 trace |-> [adjustedWidth |-> p.adjustedWidth,
                            initialLow |-> p.initialLow, initialHigh |-> p.initialHigh,
                            rangeLow |-> p.rangeLow, rangeHigh |-> p.rangeHigh,
                            confidence |-> confidence, momentum |-> p.momentum,
                            realizedVol |-> p.realizedVol,
                            projectedVol |-> p.projectedVol]]
          IN  packed(calculateConfidence(cs, p.regime, p.structure, currentPrice),
                     IF Gt(p.momentum, (RatioScale * 25) \div 100) THEN "slight bullish"
                     ELSE IF Lt(p.momentum, 0 - ((RatioScale * 25) \div 100))
                     THEN "slight bearish" ELSE "neutral",
                     Sub(p.rangeHigh, p.rangeLow))
    IN  scored(projectRange(cs, currentPrice, horizonHours))

calculatePriceRange(cs, currentPrice, horizonHours) ==
    LET scored(p) ==
          LET packed(confidence, bias, width) ==
                [horizonHours |-> horizonHours,
                 range |-> [low |-> toFixed(p.rangeLow, PriceScale \div 100),
                            high |-> toFixed(p.rangeHigh, PriceScale \div 100),
                            center |-> toFixed(p.centerPrice, PriceScale \div 100),
                            width |-> toFixed(width, PriceScale \div 100),
                            widthPercent |-> Div(Mul(width, 100, 1), currentPrice,
                                                 PctScale)],
                 confidence |-> toFixed(confidence, RatioScale \div 1000),
                 volatility |-> [state |-> classifyVolatility(p.realizedVol, cs),
                                 realized |-> toFixed(p.realizedVol, VolScale \div 10000),
                                 projected |-> toFixed(p.projectedVol,
                                                       VolScale \div 10000)],
                 regime |-> p.regime,
                 momentum |-> [value |-> toFixed(p.momentum, RatioScale \div 1000),
                               bias |-> bias],
                 invalidations |-> generateInvalidations(p.rangeLow, p.rangeHigh,
                                                         p.realizedVol, horizonHours, cs),
                 \* the pre-anchoring figures, kept beside the returned record
                 trace |-> [adjustedWidth |-> p.adjustedWidth,
                            initialLow |-> p.initialLow, initialHigh |-> p.initialHigh,
                            rangeLow |-> p.rangeLow, rangeHigh |-> p.rangeHigh,
                            confidence |-> confidence, momentum |-> p.momentum,
                            realizedVol |-> p.realizedVol,
                            projectedVol |-> p.projectedVol]]
          IN  packed(calculateConfidence(cs, p.regime, p.structure, currentPrice),
                     IF Gt(p.momentum, (RatioScale * 25) \div 100) THEN "slight bullish"
                     ELSE IF Lt(p.momentum, 0 - ((RatioScale * 25) \div 100))
                     THEN "slight bearish" ELSE "neutral",
                     Sub(p.rangeHigh, p.rangeLow))
    IN  scored(projectRange(cs, currentPrice, horizonHours))

(***************************************************************************)
(* Market assessment                                                       *)
(***************************************************************************)
assessMarketConditions(cs, md) ==
    LET regime == detectRegime(cs)
        vol == calculateRealizedVolatility(cs, 24)
        structure == findMarketStructure(cs)
        momentum == calculateMomentum(cs, 10)
        closes == closesOf(cs)
        ema20 == calculateEMA(closes, 20)
        ema50 == calculateEMA(closes, 50)
    IN  [regime |-> regime,
         volatility |-> [annualized |-> toFixed(vol, VolScale \div 10000),
                         state |-> classifyVolatility(vol, cs)],
         momentum |-> [value |-> toFixed(momentum, RatioScale \div 1000),
                       direction |-> IF Gt(momentum, RatioScale \div 10) THEN "bullish"
                                     ELSE IF Lt(momentum, 0 - (RatioScale \div 10))
                                     THEN "bearish" ELSE "neutral"],
         technicals |-> [rsi |-> calculateRSI(closes, 14),
                         ema20 |-> toFixed(ema20, PriceScale \div 100),
                         ema50 |-> toFixed(ema50, PriceScale \div 100),
                         priceVsEMA20 |-> Div((md.price - ema20) * 100, ema20, PctScale),
                         priceVsEMA50 |-> Div((md.price - ema50) * 100, ema50, PctScale)],
         structure |-> [sessionHigh |-> toFixed(structure.sessionHigh, PriceScale \div 100),
                        sessionLow |-> toFixed(structure.sessionLow, PriceScale \div 100),
                        vwap |-> toFixed(structure.vwap, PriceScale \div 100),
                        position |-> IF Gt(md.price, structure.vwap)
                                     THEN "above VWAP" ELSE "below VWAP"]]

(***************************************************************************)
(* Candle windows                                                          *)
(*                                                                         *)
(* generateRealisticCandles walks backwards from the current price with    *)
(* Math.random() steps and wicks.  Its outcomes are drawn here from a      *)
(* family of windows: an older and a recent stretch, each flat, rising,    *)
(* falling, alternating or a wave, with or without wicks, and a volume     *)
(* profile for the last six candles.  Every window ends at the current     *)
(* price, opens each candle at the close before it, and keeps              *)
(* low <= min(open, close), high >= max(open, close), volume >= 1.         *)
(***************************************************************************)
CandleCount == 30
StepSize == 100
WickSize == 60

Patterns == {"flat", "up", "down", "zig", "wave"}
Wicks == {"none", "even", "skew"}
VolumeProfiles == {"const", "surge", "fade"}
RecentLengths == {12, 24}
Prices == {100 * PriceScale}

patternDelta(pat, i) ==
    IF pat = "up" THEN StepSize
    ELSE IF pat = "down" THEN 0 - StepSize
    ELSE IF pat = "zig" THEN (IF i % 2 = 0 THEN StepSize ELSE 0 - StepSize)
    ELSE IF pat = "wave" THEN (IF i % 16 < 8 THEN StepSize ELSE 0 - StepSize)
    ELSE 0

buildCandles(count, price, recentLen, oldPat, newPat, wick, volProfile) ==
    LET delta(i) == IF i > count - recentLen THEN patternDelta(newPat, i)
                    ELSE patternDelta(oldPat, i)
        closeAt(i) == price - Sum([k \in 1..(count - i) |-> delta(i + k)])
        openAt(i) == closeAt(i) - delta(i)
        wickHigh(i) == IF wick = "none" THEN 0
                       ELSE IF wick = "even" THEN WickSize ELSE WickSize * (i % 3)
        wickLow(i) == IF wick = "none" THEN 0
                      ELSE IF wick = "even" THEN WickSize ELSE WickSize * ((i + 1) % 3)
        hi(i) == (IF openAt(i) > closeAt(i) THEN openAt(i) ELSE closeAt(i)) + wickHigh(i)
        lo(i) == (IF openAt(i) < closeAt(i) THEN openAt(i) ELSE closeAt(i)) - wickLow(i)
        vol(i) == IF i <= count - 6 \/ volProfile = "const" THEN 3
                  ELSE IF volProfile = "surge" THEN 5 ELSE 1
    IN  [i \in 1..count |->
            [open |-> openAt(i), high |-> hi(i), low |-> lo(i),
             close |-> closeAt(i), volume |-> vol(i)]]

CandleWindows(price) ==
    {buildCandles(CandleCount, price, r, o, n, w, v) :
        r \in RecentLengths, o \in Patterns, n \in Patterns,
        w \in Wicks, v \in VolumeProfiles}

(***************************************************************************)
(* The request handler                                                     *)
(***************************************************************************)
horizons == <<1, 2, 4, 6, 12, 24>>

FetchOutcomes == {"data", "nodata", "throw"}

Init ==
    /\ pc = "start"
    /\ fetches = <<>>
    /\ wsConnected = FALSE
    /\ liquidationClusters = <<>>
    /\ sockets = <<>>
    /\ timers = 0
    /\ data = <<>>
    /\ loading = TRUE
    /\ error = NoError
    /\ lastUpdate = 0
    /\ calls = <<>>
    /\ marketData = <<>>
    /\ candles = <<>>
    /\ rangePredictions = <<>>
    /\ marketAssessment = <<>>
    /\ tradingZones = <<>>
    /\ response = <<>>
    /\ args = <<>>
    /\ result = <<>>

\* req.method === 'OPTIONS'
Preflight ==
    /\ pc = "start"
    /\ response' = [status |-> 200, success |-> FALSE]
    /\ pc' = "done"
    /\ UNCHANGED <<marketData, candles, rangePredictions, marketAssessment,
                   tradingZones, args, result,
                   fetches, wsConnected, liquidationClusters,
                   socketVars, dashboardVars>>

\* fetchMarketData with the backup source queried before the primary one
FetchMarketDataBackupFirst ==
    /\ pc = "start"
    /\ \E coinCap \in FetchOutcomes, cryptoCompare \in FetchOutcomes, price \in Prices :
          IF cryptoCompare = "data"
          THEN /\ marketData' = [price |-> price, source |-> "CryptoCompare"]
               /\ fetches' = <<[source |-> "CryptoCompare", outcome |-> cryptoCompare]>>
               /\ pc' = "candles"
          ELSE /\ fetches' = <<[source |-> "CryptoCompare", outcome |-> cryptoCompare],
                               [source |-> "CoinCap", outcome |-> coinCap]>>
               /\ IF coinCap = "data"
                  THEN /\ marketData' = [price |-> price, source |-> "CoinCap"]
                       /\ pc' = "candles"
                  ELSE /\ marketData' = marketData
                       /\ pc' = "failed"
    /\ UNCHANGED <<candles, rangePredictions, marketAssessment, tradingZones,
                   response, args, result, wsConnected, liquidationClusters,
                   socketVars, dashboardVars>>

\* fetchMarketData: CoinCap first, CryptoCompare as backup, else throw.
\* fetches logs the requests made, each with what came back.
FetchMarketData ==
    /\ pc = "start"
    /\ \E coinCap \in FetchOutcomes, cryptoCompare \in FetchOutcomes, price \in Prices :
          IF coinCap = "data"
          THEN /\ marketData' = [price |-> price, source |-> "CoinCap"]
               /\ fetches' = <<[source |-> "CoinCap", outcome |-> coinCap]>>
               /\ pc' = "candles"
          ELSE /\ fetches' = <<[source |-> "CoinCap", outcome |-> coinCap],
                               [source |-> "CryptoCompare", outcome |-> cryptoCompare]>>
               /\ IF cryptoCompare = "data"
                  THEN /\ marketData' = [price |-> price, source |-> "CryptoCompare"]
                       /\ pc' = "candles"
                  ELSE /\ marketData' = marketData
                       /\ pc' = "failed"
    /\ UNCHANGED <<candles, rangePredictions, marketAssessment, tradingZones,
                   response, args, result, wsConnected, liquidationClusters,
                   socketVars, dashboardVars>>

GenerateCandles ==
    /\ pc = "candles"
    /\ candles' \in CandleWindows(marketData.price)
    /\ pc' = "predict"
    /\ UNCHANGED <<marketData, rangePredictions, marketAssessment, tradingZones,
                   response, args, result,
                   fetches, wsConnected, liquidationClusters,
                   socketVars, dashboardVars>>

\* one element of horizons.map(hours => calculatePriceRange(...)); args logs
\* the calls made
PredictRange ==
    /\ pc = "predict"
    /\ Len(rangePredictions) < Len(horizons)
    /\ rangePredictions' =
          Append(rangePredictions,
                 calculatePriceRange(candles, marketData.price,
                                     horizons[Len(rangePredictions) + 1]))
    /\ args' = Append(args, [candles |-> candles, currentPrice |-> marketData.price,
                             horizonHours |-> horizons[Len(rangePredictions) + 1]])
    /\ pc' = IF Len(rangePredictions) + 1 = Len(horizons) THEN "assess" ELSE "predict"
    /\ UNCHANGED <<marketData, candles, marketAssessment, tradingZones,
                   response, result,
                   fetches, wsConnected, liquidationClusters,
                   socketVars, dashboardVars>>

AssessMarket ==
    /\ pc = "assess"
    /\ marketAssessment' = assessMarketConditions(candles, marketData)
    /\ pc' = "zones"
    /\ UNCHANGED <<marketData, candles, rangePredictions, tradingZones,
                   response, args, result,
                   fetches, wsConnected, liquidationClusters,
                   socketVars, dashboardVars>>

\* the zones taken from the first horizon's prediction
GenerateZonesFirstHorizon ==
    /\ pc = "zones"
    /\ tradingZones' = generateTradingZones(rangePredictions[1], marketData.price)
    /\ pc' = "respond"
    /\ UNCHANGED <<marketData, candles, rangePredictions, marketAssessment,
                   response, args, result,
                   fetches, wsConnected, liquidationClusters,
                   socketVars, dashboardVars>>

GenerateZones ==
    /\ pc = "zones"
    /\ tradingZones' = generateTradingZones(rangePredictions[2], marketData.price)
    /\ pc' = "respond"
    /\ UNCHANGED <<marketData, candles, rangePredictions, marketAssessment,
                   response, args, result,
                   fetches, wsConnected, liquidationClusters,
                   socketVars, dashboardVars>>

Respond ==
    /\ pc = "respond"
    /\ response' = [status |-> 200, success |-> TRUE]
    /\ pc' = "done"
    /\ UNCHANGED <<marketData, candles, rangePredictions, marketAssessment,
                   tradingZones, args, result,
                   fetches, wsConnected, liquidationClusters,
                   socketVars, dashboardVars>>

RespondError ==
    /\ pc = "failed"
    /\ response' = [status |-> 500, success |-> FALSE]
    /\ pc' = "done"
    /\ UNCHANGED <<marketData, candles, rangePredictions, marketAssessment,
                   tradingZones, args, result,
                   fetches, wsConnected, liquidationClusters,
                   socketVars, dashboardVars>>

Next ==
    \/ Preflight
    \/ FetchMarketData
    \/ GenerateCandles
    \/ PredictRange
    \/ AssessMarket
    \/ GenerateZones
    \/ Respond
    \/ RespondError

Spec == Init /\ [][Next]_vars

(***************************************************************************)
(* determineCurrentZone on its own                                         *)
(***************************************************************************)
ZoneSteps == 8

ZoneGrid == {99 * PriceScale + k * (PriceScale \div 4) : k \in 0..ZoneSteps}

\* bounds of a RangePrediction: numbers, or NaN on both sides
ZoneBounds ==
    {[low |-> l, high |-> h] : l \in ZoneGrid, h \in ZoneGrid}
        \cup {[low |-> NaN, high |-> NaN]}

InitZone ==
    /\ pc = "zone.call"
    /\ fetches = <<>>
    /\ wsConnected = FALSE
    /\ liquidationClusters = <<>>
    /\ sockets = <<>>
    /\ timers = 0
    /\ data = <<>>
    /\ loading = TRUE
    /\ error = NoError
    /\ lastUpdate = 0
    /\ calls = <<>>
    /\ args \in {[price |-> p, low |-> b.low, high |-> b.high] :
                    p \in ZoneGrid, b \in ZoneBounds}
    /\ result = <<>>
    /\ marketData = <<>>
    /\ candles = <<>>
    /\ rangePredictions = <<>>
    /\ marketAssessment = <<>>
    /\ tradingZones = <<>>
    /\ response = <<>>

DetermineZone ==
    /\ pc = "zone.call"
    /\ result' = determineCurrentZone(args.price, args.low, args.high,
                                      Sub(args.high, args.low))
    /\ pc' = "zone.return"
    /\ UNCHANGED <<marketData, candles, rangePredictions, marketAssessment,
                   tradingZones, response, args,
                   fetches, wsConnected, liquidationClusters,
                   socketVars, dashboardVars>>

NextZone == DetermineZone

SpecZone == InitZone /\ [][NextZone]_vars

(***************************************************************************)
(* generateTradingZones on narrow ranges                                   *)
(*                                                                         *)
(* The bounds of the range are whole cents, as calculatePriceRange rounds   *)
(* them; the price is any thousandth between them.                         *)
(***************************************************************************)
MaxWidthCents == 12

RangeLows == {100 * PriceScale, 100 * PriceScale + 10}

InitTradingZones ==
    /\ pc = "zones.call"
    /\ args \in {[price |-> l + p, low |-> l, high |-> l + 10 * w] :
                    l \in RangeLows, w \in 1..MaxWidthCents,
                    p \in 0..(10 * MaxWidthCents)}
    /\ args.price <= args.high
    /\ result = <<>>
    /\ marketData = <<>>
    /\ candles = <<>>
    /\ rangePredictions = <<>>
    /\ marketAssessment = <<>>
    /\ tradingZones = <<>>
    /\ response = <<>>
    /\ fetches = <<>>
    /\ wsConnected = FALSE
    /\ liquidationClusters = <<>>
    /\ sockets = <<>>
    /\ timers = 0
    /\ data = <<>>
    /\ loading = TRUE
    /\ error = NoError
    /\ lastUpdate = 0
    /\ calls = <<>>

GenerateTradingZones ==
    /\ pc = "zones.call"
    /\ result' = generateTradingZones([range |-> [low |-> args.low, high |-> args.high]],
                                      args.price)
    /\ pc' = "zones.return"
    /\ UNCHANGED <<marketData, candles, rangePredictions, marketAssessment,
                   tradingZones, response, args,
                   fetches, wsConnected, liquidationClusters,
                   socketVars, dashboardVars>>

NextTradingZones == GenerateTradingZones

SpecTradingZones == InitTradingZones /\ [][NextTradingZones]_vars

(***************************************************************************)
(* detectRegime on rising 30-candle windows                                *)
(*                                                                         *)
(* Closes rise strictly from 100 to 130 along two straight stretches that  *)
(* meet at candle knee on level kneeLevel; each candle opens at the close  *)
(* before it.  With "deep" wicks every other low dips below the one before *)
(* it, which feeds -DM and lowers the ADX.                                 *)
(***************************************************************************)
DipSize == 5000

KneeLevels == {105, 110, 115, 120, 125}
RisingWicks == {"none", "deep", "shallow"}

risingCandles(knee, kneeLevel, wick) ==
    LET first == 100 * PriceScale
        mid == kneeLevel * PriceScale
        last == 130 * PriceScale
        closeAt(i) == IF i <= knee
                      THEN first + ((mid - first) * (i - 1)) \div (knee - 1)
                      ELSE mid + ((last - mid) * (i - knee)) \div (30 - knee)
        openAt(i) == IF i = 1 THEN first ELSE closeAt(i - 1)
        dip(i) == IF wick = "deep" THEN DipSize * (i % 2)
                  ELSE IF wick = "shallow" THEN (DipSize \div 10) * (i % 2)
                  ELSE 0
    IN  [i \in 1..30 |->
            [open |-> openAt(i), high |-> closeAt(i), low |-> openAt(i) - dip(i),
             close |-> closeAt(i), volume |-> 3]]

InitRegime ==
    /\ pc = "regime.call"
    /\ fetches = <<>>
    /\ wsConnected = FALSE
    /\ liquidationClusters = <<>>
    /\ sockets = <<>>
    /\ timers = 0
    /\ data = <<>>
    /\ loading = TRUE
    /\ error = NoError
    /\ lastUpdate = 0
    /\ calls = <<>>
    /\ candles \in {risingCandles(k, v, w) :
                       k \in 2..29, v \in KneeLevels, w \in RisingWicks}
    /\ args = <<>>
    /\ result = <<>>
    /\ marketData = <<>>
    /\ rangePredictions = <<>>
    /\ marketAssessment = <<>>
    /\ tradingZones = <<>>
    /\ response = <<>>

DetectRegime ==
    /\ pc = "regime.call"
    /\ result' = detectRegime(candles)
    /\ pc' = "regime.return"
    /\ UNCHANGED <<marketData, candles, rangePredictions, marketAssessment,
                   tradingZones, response, args,
                   fetches, wsConnected, liquidationClusters,
                   socketVars, dashboardVars>>

NextRegime == DetectRegime

SpecRegime == InitRegime /\ [][NextRegime]_vars

(***************************************************************************)
(* detectRegime on windows of several lengths and step sizes                *)
(*                                                                         *)
(* A window of count candles ends at 100; its closes move by step per      *)
(* candle along one pattern, each candle opens at the close before it.     *)
(* Windows shorter than 20 closes have no Bollinger width, windows shorter  *)
(* than 50 closes take the last close for the EMA50.                       *)
(***************************************************************************)
RegimeCounts == {15, 30, 55}
RegimeSteps == {0, 50, 200, 800, 1600}
RegimePatterns == {"up", "down", "zig", "wave"}

regimeCandles(count, step, pat, wick) ==
    LET delta(i) == (patternDelta(pat, i) \div StepSize) * step
        closeAt(i) == 100 * PriceScale - Sum([k \in 1..(count - i) |-> delta(i + k)])
        openAt(i) == closeAt(i) - delta(i)
        wickHigh(i) == IF wick = "none" THEN 0
                       ELSE IF wick = "even" THEN WickSize ELSE WickSize * (i % 3)
        wickLow(i) == IF wick = "none" THEN 0
                      ELSE IF wick = "even" THEN WickSize ELSE WickSize * ((i + 1) % 3)
    IN  [i \in 1..count |->
            [open |-> openAt(i),
             high |-> (IF openAt(i) > closeAt(i) THEN openAt(i) ELSE closeAt(i))
                      + wickHigh(i),
             low |-> (IF openAt(i) < closeAt(i) THEN openAt(i) ELSE closeAt(i))
                     - wickLow(i),
             close |-> closeAt(i), volume |-> 3]]

InitRegimeAny ==
    /\ pc = "regime.call"
    /\ candles \in {regimeCandles(n, s, p, w) :
                       n \in RegimeCounts, s \in RegimeSteps,
                       p \in RegimePatterns, w \in Wicks}
    /\ args = <<>>
    /\ result = <<>>
    /\ marketData = <<>>
    /\ rangePredictions = <<>>
    /\ marketAssessment = <<>>
    /\ tradingZones = <<>>
    /\ response = <<>>
    /\ fetches = <<>>
    /\ wsConnected = FALSE
    /\ liquidationClusters = <<>>
    /\ sockets = <<>>
    /\ timers = 0
    /\ data = <<>>
    /\ loading = TRUE
    /\ error = NoError
    /\ lastUpdate = 0
    /\ calls = <<>>

SpecRegimeAny == InitRegimeAny /\ [][NextRegime]_vars

(***************************************************************************)
(* generateRealisticCandles                                                *)
(*                                                                         *)
(* Each iteration reads Math.random() four times and Date.now() once.  The  *)
(* readings are the parameter draws: draws[i].move, .up and .down are       *)
(* Math.random() in thousandths for the price change, the high and the low  *)
(* (the volume reading does not reach any other field and is taken with     *)
(* .up), draws[i].tick is the time in ms the clock advanced since the       *)
(* iteration before.                                                       *)
(***************************************************************************)
MaxCount == 2
HourMs == 3600000

StartClock == 100 * HourMs

Draws ==
    {[move |-> m, up |-> u, down |-> d, tick |-> t] :
        m \in {0, 500, 999}, u \in {0, 999}, d \in {0, 999}, t \in {0, 1}}

GeneratorPrices == {100 * PriceScale, 65000 * PriceScale}

\* Math.sin(i / 10) * 0.002 at RatioScale, by the series of the sine to its
\* third term
trendBias(i) ==
    RoundDiv(2 * (10000 * i - RoundDiv(100 * i * i * i, 6)
                  + RoundDiv(i * i * i * i * i, 120)), 10000)

\* candleAt with the low wick drawn above the body instead of below it
candleAtLowRaised(i, price, now, draw) ==
    LET shaped(open) ==
          [open |-> open,
           high |-> Mul(IF open > price THEN open ELSE price,
                        RatioScale + RoundDiv(30 * draw.up, 1000), RatioScale),
           low |-> Mul(IF open < price THEN open ELSE price,
                       RatioScale + RoundDiv(30 * draw.down, 1000), RatioScale),
           close |-> price,
           volume |-> 1 + RoundDiv(5 * draw.up, 1000),
           timestamp |-> now - i * HourMs]
    IN  shaped(price - Mul(price, RoundDiv(160 * (draw.move - 500), 1000)
                                  + trendBias(i), RatioScale))

\* one candle of the loop: it closes at price and opens priceChange below
candleAt(i, price, now, draw) ==
    LET shaped(open) ==
          [open |-> open,
           high |-> Mul(IF open > price THEN open ELSE price,
                        RatioScale + RoundDiv(30 * draw.up, 1000), RatioScale),
           low |-> Mul(IF open < price THEN open ELSE price,
                       RatioScale - RoundDiv(30 * draw.down, 1000), RatioScale),
           close |-> price,
           volume |-> 1 + RoundDiv(5 * draw.up, 1000),
           timestamp |-> now - i * HourMs]
    IN  shaped(price - Mul(price, RoundDiv(160 * (draw.move - 500), 1000)
                                  + trendBias(i), RatioScale))

\* the loop for (let i = count; i > 0; i--), each candle unshifted onto acc
RECURSIVE generateLoop(_, _, _, _, _)
generateLoop(i, price, clock, draws, acc) ==
    IF i <= 0 THEN acc
    ELSE LET stepped(candle) ==
               generateLoop(i - 1, candle.open, clock + draws[i].tick, draws,
                            <<candle>> \o acc)
         IN  stepped(candleAt(i, price, clock + draws[i].tick, draws[i]))

\* the forEach that moves every candle by currentPrice - lastClose
adjustCandles(cs, currentPrice) ==
    LET moved(adjustment) ==
          [j \in 1..Len(cs) |->
              [open |-> cs[j].open + adjustment, high |-> cs[j].high + adjustment,
               low |-> cs[j].low + adjustment, close |-> cs[j].close + adjustment,
               volume |-> cs[j].volume, timestamp |-> cs[j].timestamp]]
    IN  moved(currentPrice - cs[Len(cs)].close)

\* the returned candles, and beside them the candles as the loop left them
generateRealisticCandles(currentPrice, count, draws) ==
    LET adjusted(generated) ==
          [candles |-> adjustCandles(generated, currentPrice), generated |-> generated]
    IN  adjusted(generateLoop(count, currentPrice, StartClock, draws, <<>>))

InitGenerate ==
    /\ pc = "generate.call"
    /\ args \in {[currentPrice |-> p, count |-> n] :
                    p \in GeneratorPrices, n \in 1..MaxCount}
    /\ result = <<>>
    /\ marketData = <<>>
    /\ candles = <<>>
    /\ rangePredictions = <<>>
    /\ marketAssessment = <<>>
    /\ tradingZones = <<>>
    /\ response = <<>>
    /\ fetches = <<>>
    /\ wsConnected = FALSE
    /\ liquidationClusters = <<>>
    /\ sockets = <<>>
    /\ timers = 0
    /\ data = <<>>
    /\ loading = TRUE
    /\ error = NoError
    /\ lastUpdate = 0
    /\ calls = <<>>

GenerateRealisticCandles ==
    /\ pc = "generate.call"
    /\ \E draws \in [1..args.count -> Draws] :
          result' = generateRealisticCandles(args.currentPrice, args.count, draws)
    /\ pc' = "generate.return"
    /\ UNCHANGED <<marketData, candles, rangePredictions, marketAssessment,
                   tradingZones, response, args,
                   fetches, wsConnected, liquidationClusters,
                   socketVars, dashboardVars>>

NextGenerate == GenerateRealisticCandles

SpecGenerate == InitGenerate /\ [][NextGenerate]_vars

(***************************************************************************)
(* findSwingPoints on short price series                                   *)
(***************************************************************************)
MaxSwingLen == 12

SwingPrices == {100 * PriceScale, 101 * PriceScale}

SwingSeries == UNION {[1..n -> SwingPrices] : n \in 11..MaxSwingLen}

InitSwings ==
    /\ pc = "swings.call"
    /\ args \in {[prices |-> ps, type |-> t] : ps \in SwingSeries, t \in {"high", "low"}}
    /\ result = <<>>
    /\ marketData = <<>>
    /\ candles = <<>>
    /\ rangePredictions = <<>>
    /\ marketAssessment = <<>>
    /\ tradingZones = <<>>
    /\ response = <<>>
    /\ fetches = <<>>
    /\ wsConnected = FALSE
    /\ liquidationClusters = <<>>
    /\ sockets = <<>>
    /\ timers = 0
    /\ data = <<>>
    /\ loading = TRUE
    /\ error = NoError
    /\ lastUpdate = 0
    /\ calls = <<>>

FindSwingPoints ==
    /\ pc = "swings.call"
    /\ result' = findSwingPoints(args.prices, args.type)
    /\ pc' = "swings.return"
    /\ UNCHANGED <<marketData, candles, rangePredictions, marketAssessment,
                   tradingZones, response, args,
                   fetches, wsConnected, liquidationClusters,
                   socketVars, dashboardVars>>

NextSwings == FindSwingPoints

SpecSwings == InitSwings /\ [][NextSwings]_vars

(***************************************************************************)
(* calculateConfidence on structures with few swing points                 *)
(*                                                                         *)
(* The price is 100; swing lows and highs are drawn from levels 5% below,   *)
(* 1% below or above, and 5% above it.                                     *)
(***************************************************************************)
MaxSwings == 2

SwingLowLevels == {95 * PriceScale, 99 * PriceScale, 105 * PriceScale}
SwingHighLevels == {95 * PriceScale, 101 * PriceScale, 105 * PriceScale}

SwingLists(levels) == UNION {[1..n -> levels] : n \in 0..MaxSwings}

ConfidenceWindows ==
    {buildCandles(CandleCount, 100 * PriceScale, 12, "wave", "up", "even", "const"),
     buildCandles(CandleCount, 100 * PriceScale, 24, "zig", "wave", "skew", "fade")}

InitConfidence ==
    /\ pc = "confidence.call"
    /\ candles \in ConfidenceWindows
    /\ args \in {[strength |-> g, swingLows |-> lows, swingHighs |-> highs,
                  currentPrice |-> 100 * PriceScale] :
                    g \in {RatioScale \div 4, RatioScale \div 2},
                    lows \in SwingLists(SwingLowLevels),
                    highs \in SwingLists(SwingHighLevels)}
    /\ result = <<>>
    /\ marketData = <<>>
    /\ rangePredictions = <<>>
    /\ marketAssessment = <<>>
    /\ tradingZones = <<>>
    /\ response = <<>>
    /\ fetches = <<>>
    /\ wsConnected = FALSE
    /\ liquidationClusters = <<>>
    /\ sockets = <<>>
    /\ timers = 0
    /\ data = <<>>
    /\ loading = TRUE
    /\ error = NoError
    /\ lastUpdate = 0
    /\ calls = <<>>

CalculateConfidence ==
    /\ pc = "confidence.call"
    /\ result' = calculateConfidence(candles, [strength |-> args.strength],
                                     [swingLows |-> args.swingLows,
                                      swingHighs |-> args.swingHighs],
                                     args.currentPrice)
    /\ pc' = "confidence.return"
    /\ UNCHANGED <<marketData, candles, rangePredictions, marketAssessment,
                   tradingZones, response, args,
                   fetches, wsConnected, liquidationClusters,
                   socketVars, dashboardVars>>

NextConfidence == CalculateConfidence

SpecConfidence == InitConfidence /\ [][NextConfidence]_vars

(***************************************************************************)
(* The serverless module over its lifetime                                  *)
(*                                                                         *)
(* The WebSocket revision keeps module-level state between requests:        *)
(* wsConnected and liquidationClusters (liveCandles is declared and never   *)
(* written).  The liquidation socket opens, delivers forceOrder messages    *)
(* and closes at any time; requests to the live handler and invocations of  *)
(* calculatePriceRange happen in between.  args and result log the          *)
(* invocations: args[k] is the k-th input and the number of clusters        *)
(* buffered when it was made, result[k] what it returned.                   *)
(***************************************************************************)
MaxMessages == 2
MaxInvocations == 2

\* forceOrder payloads msg.data: p, q, S, T
ForceOrders ==
    {[p |-> 65000 * PriceScale, q |-> 500, S |-> side, T |-> 1] :
        side \in {"BUY", "SELL"}}

\* readings of new Date() for generatedAt
ClockReadings == {1, 2}

SessionWindows ==
    {buildCandles(CandleCount, 100 * PriceScale, 12, "wave", "up", "even", "const"),
     buildCandles(CandleCount, 100 * PriceScale, 24, "zig", "zig", "skew", "surge")}

\* detectRegime of the WebSocket revision
liveDetectRegime(cs) ==
    LET compared(ema20, ema50) ==
          IF ema20 > ema50 THEN [type |-> "trend", direction |-> "up"]
          ELSE IF ema20 < ema50 THEN [type |-> "trend", direction |-> "down"]
          ELSE [type |-> "range", direction |-> "neutral"]
    IN  compared(calculateEMALive(closesOf(cs), 20), calculateEMALive(closesOf(cs), 50))

\* projectRange of the WebSocket revision
liveProjectRange(cs, currentPrice, horizonHours) ==
    LET spread(width) ==
          [low |-> Sub(currentPrice, Div(width, 2, 1)),
           high |-> Add(currentPrice, Div(width, 2, 1)),
           center |-> currentPrice]
        mult(type) == IF type = "trend" THEN 115 ELSE IF type = "range" THEN 90 ELSE 100
    IN  spread(Mul(Mul(MulVol(currentPrice, calculateRealizedVolatility(cs, 24)),
                       sqrtTimeRatio(horizonHours, 24), RatioScale),
                   mult(liveDetectRegime(cs).type), 100))

InitSession ==
    /\ pc = "session"
    /\ wsConnected = FALSE
    /\ liquidationClusters = <<>>
    /\ sockets = <<>>
    /\ timers = 0
    /\ data = <<>>
    /\ loading = TRUE
    /\ error = NoError
    /\ lastUpdate = 0
    /\ calls = <<>>
    /\ args = <<>>
    /\ result = <<>>
    /\ response = <<>>
    /\ marketData = <<>>
    /\ candles = <<>>
    /\ rangePredictions = <<>>
    /\ marketAssessment = <<>>
    /\ tradingZones = <<>>
    /\ fetches = <<>>

\* ws.onopen
OnOpen ==
    /\ pc = "session"
    /\ ~wsConnected
    /\ wsConnected' = TRUE
    /\ UNCHANGED <<pc, marketData, candles, rangePredictions, marketAssessment,
                   tradingZones, response, args, result, fetches, liquidationClusters,
                   socketVars, dashboardVars>>

\* ws.onclose; connectLiquidationWS is scheduled again
OnClose ==
    /\ pc = "session"
    /\ wsConnected
    /\ wsConnected' = FALSE
    /\ UNCHANGED <<pc, marketData, candles, rangePredictions, marketAssessment,
                   tradingZones, response, args, result, fetches, liquidationClusters,
                   socketVars, dashboardVars>>

\* ws.onmessage
OnMessage ==
    /\ pc = "session"
    /\ wsConnected
    /\ Len(liquidationClusters) < MaxMessages
    /\ \E msg \in ForceOrders :
          liquidationClusters' =
              Append(liquidationClusters,
                     [price |-> msg.p, qty |-> msg.q,
                      side |-> IF msg.S = "BUY" THEN "buy" ELSE "sell",
                      timestamp |-> msg.T])
    /\ UNCHANGED <<pc, marketData, candles, rangePredictions, marketAssessment,
                   tradingZones, response, args, result, fetches, wsConnected,
                   socketVars, dashboardVars>>

\* the handler of the WebSocket revision; fetchHistoricalCandles answers a
\* window, or [] when the request failed.  The backtest figures of the
\* response are computed from the fetched candles alone and are left out.
LiveHandler ==
    /\ pc = "session"
    /\ \E fetched \in SessionWindows \cup {<<>>} :
          response' =
              IF fetched = <<>> THEN [status |-> 500, success |-> FALSE]
              ELSE [status |-> 200, success |-> TRUE,
                    currentPrice |-> fetched[Len(fetched)].close,
                    rangePredictions |->
                        [k \in 1..3 |->
                            liveProjectRange(fetched, fetched[Len(fetched)].close,
                                             <<1, 6, 12>>[k])],
                    liquidationClusters |-> liquidationClusters]
    /\ UNCHANGED <<pc, marketData, candles, rangePredictions, marketAssessment,
                   tradingZones, args, result, fetches, wsConnected,
                   liquidationClusters,
                   socketVars, dashboardVars>>

\* one invocation of calculatePriceRange; generatedAt is the clock reading
InvokeEngine ==
    /\ pc = "session"
    /\ Len(args) < MaxInvocations
    /\ \E cs \in SessionWindows, now \in ClockReadings :
          /\ args' = Append(args, [candles |-> cs, currentPrice |-> 100 * PriceScale,
                                   horizonHours |-> 2,
                                   buffered |-> Len(liquidationClusters)])
          /\ result' = Append(result,
                              [prediction |->
                                   calculatePriceRange(cs, 100 * PriceScale, 2),
                               generatedAt |-> now])
    /\ UNCHANGED <<pc, marketData, candles, rangePredictions, marketAssessment,
                   tradingZones, response, fetches, wsConnected, liquidationClusters,
                   socketVars, dashboardVars>>

NextSession ==
    \/ OnOpen
    \/ OnClose
    \/ OnMessage
    \/ LiveHandler
    \/ InvokeEngine

SpecSession == InitSession /\ [][NextSession]_vars

(***************************************************************************)
(* connectLiquidationWS and its sockets                                    *)
(*                                                                         *)
(* sockets[k] is the state of the k-th WebSocket the module has made:       *)
(* "connecting" until its open or close event, then "open" or "closed".    *)
(* timers counts the setTimeout(connectLiquidationWS, 2000) calls that have *)
(* not fired yet.  The module calls connectLiquidationWS once when it is    *)
(* loaded, so the first socket exists from the start.  A socket is closed   *)
(* by its peer or by a failed connection at any time; the model lets that   *)
(* happen while fewer than MaxSockets sockets have been made.              *)
(***************************************************************************)
MaxSockets == 8

InitSocket ==
    /\ pc = "socket"
    /\ sockets = <<"connecting">>
    /\ timers = 0
    /\ wsConnected = FALSE
    /\ liquidationClusters = <<>>
    /\ fetches = <<>>
    /\ args = <<>>
    /\ result = <<>>
    /\ marketData = <<>>
    /\ candles = <<>>
    /\ rangePredictions = <<>>
    /\ marketAssessment = <<>>
    /\ tradingZones = <<>>
    /\ response = <<>>
    /\ data = <<>>
    /\ loading = TRUE
    /\ error = NoError
    /\ lastUpdate = 0
    /\ calls = <<>>

\* ws.onclose that leaves wsConnected as it is
WsCloseKeepsFlag ==
    /\ pc = "socket"
    /\ Len(sockets) < MaxSockets
    /\ \E k \in 1..Len(sockets) :
          /\ sockets[k] # "closed"
          /\ sockets' = [sockets EXCEPT ![k] = "closed"]
    /\ timers' = timers + 1
    /\ UNCHANGED <<pc, marketData, candles, rangePredictions, marketAssessment,
                   tradingZones, response, args, result, fetches, wsConnected,
                   liquidationClusters, dashboardVars>>

\* ws.onclose that does not schedule connectLiquidationWS
WsCloseUnscheduled ==
    /\ pc = "socket"
    /\ Len(sockets) < MaxSockets
    /\ \E k \in 1..Len(sockets) :
          /\ sockets[k] # "closed"
          /\ sockets' = [sockets EXCEPT ![k] = "closed"]
    /\ wsConnected' = FALSE
    /\ UNCHANGED <<pc, marketData, candles, rangePredictions, marketAssessment,
                   tradingZones, response, args, result, fetches, timers,
                   liquidationClusters, dashboardVars>>

\* ws.onopen of a socket that was connecting
WsOpen ==
    /\ pc = "socket"
    /\ \E k \in 1..Len(sockets) :
          /\ sockets[k] = "connecting"
          /\ sockets' = [sockets EXCEPT ![k] = "open"]
    /\ wsConnected' = TRUE
    /\ UNCHANGED <<pc, marketData, candles, rangePredictions, marketAssessment,
                   tradingZones, response, args, result, fetches, timers,
                   liquidationClusters, dashboardVars>>

\* ws.onmessage of an open socket
WsMessage ==
    /\ pc = "socket"
    /\ Len(liquidationClusters) < MaxMessages
    /\ \E k \in 1..Len(sockets) : sockets[k] = "open"
    /\ \E msg \in ForceOrders :
          liquidationClusters' =
              Append(liquidationClusters,
                     [price |-> msg.p, qty |-> msg.q,
                      side |-> IF msg.S = "BUY" THEN "buy" ELSE "sell",
                      timestamp |-> msg.T])
    /\ UNCHANGED <<pc, marketData, candles, rangePredictions, marketAssessment,
                   tradingZones, response, args, result, fetches, wsConnected,
                   socketVars, dashboardVars>>

\* ws.onclose of a socket that was connecting or open
WsClose ==
    /\ pc = "socket"
    /\ Len(sockets) < MaxSockets
    /\ \E k \in 1..Len(sockets) :
          /\ sockets[k] # "closed"
          /\ sockets' = [sockets EXCEPT ![k] = "closed"]
    /\ wsConnected' = FALSE
    /\ timers' = timers + 1
    /\ UNCHANGED <<pc, marketData, candles, rangePredictions, marketAssessment,
                   tradingZones, response, args, result, fetches,
                   liquidationClusters, dashboardVars>>

\* a reconnect timer fires: connectLiquidationWS returns when wsConnected,
\* else makes a socket
ReconnectTimer ==
    /\ pc = "socket"
    /\ timers > 0
    /\ timers' = timers - 1
    /\ sockets' = IF wsConnected THEN sockets ELSE Append(sockets, "connecting")
    /\ UNCHANGED <<pc, marketData, candles, rangePredictions, marketAssessment,
                   tradingZones, response, args, result, fetches, wsConnected,
                   liquidationClusters, dashboardVars>>

NextSocket ==
    \/ WsOpen
    \/ WsMessage
    \/ WsClose
    \/ ReconnectTimer

SpecSocket == InitSocket /\ [][NextSocket]_vars

\* timers set with setTimeout fire
SpecSocketLive == InitSocket /\ [][NextSocket]_vars /\ WF_vars(ReconnectTimer)

(***************************************************************************)
(* The dashboard component (pages/index.js)                                *)
(*                                                                         *)
(* calls[k] is the k-th fetchAnalysis call: "awaiting" from its start to    *)
(* the answer of fetch, then "ok" or "failed".  data is null (<<>>) or the  *)
(* result of one call, [call |-> k].  lastUpdate is the number of the event *)
(* at which it was set, 0 for null.  A call runs without interruption from  *)
(* its start to its await, and from the answer to its end.                 *)
(***************************************************************************)
MaxCalls == 3

FetchAnswers == {"ok", "notok", "rejected"}

\* the events so far: one per call started and one per call settled
eventCount ==
    Len(calls) + Cardinality({k \in 1..Len(calls) : calls[k] # "awaiting"})

\* fetchAnalysis up to its await
startFetchAnalysis ==
    /\ calls' = Append(calls, "awaiting")
    /\ loading' = TRUE
    /\ error' = NoError
    /\ UNCHANGED <<data, lastUpdate>>

InitDashboard ==
    /\ pc = "dashboard"
    /\ data = <<>>
    /\ loading = TRUE
    /\ error = NoError
    /\ lastUpdate = 0
    /\ calls = <<>>
    /\ sockets = <<>>
    /\ timers = 0
    /\ wsConnected = FALSE
    /\ liquidationClusters = <<>>
    /\ fetches = <<>>
    /\ args = <<>>
    /\ result = <<>>
    /\ marketData = <<>>
    /\ candles = <<>>
    /\ rangePredictions = <<>>
    /\ marketAssessment = <<>>
    /\ tradingZones = <<>>
    /\ response = <<>>

\* useEffect on mount
Mount ==
    /\ pc = "dashboard"
    /\ calls = <<>>
    /\ startFetchAnalysis
    /\ UNCHANGED <<pc, marketData, candles, rangePredictions, marketAssessment,
                   tradingZones, response, args, result, fetches, wsConnected,
                   liquidationClusters, socketVars>>

\* setInterval(fetchAnalysis, 180000)
IntervalTick ==
    /\ pc = "dashboard"
    /\ calls # <<>>
    /\ Len(calls) < MaxCalls
    /\ startFetchAnalysis
    /\ UNCHANGED <<pc, marketData, candles, rangePredictions, marketAssessment,
                   tradingZones, response, args, result, fetches, wsConnected,
                   liquidationClusters, socketVars>>

\* the refresh button, disabled while loading
Refresh ==
    /\ pc = "dashboard"
    /\ calls # <<>>
    /\ Len(calls) < MaxCalls
    /\ ~loading
    /\ startFetchAnalysis
    /\ UNCHANGED <<pc, marketData, candles, rangePredictions, marketAssessment,
                   tradingZones, response, args, result, fetches, wsConnected,
                   liquidationClusters, socketVars>>

\* fetchAnalysis after its await, with a failure that also clears data
FetchAnalysisSettleDropsData ==
    /\ pc = "dashboard"
    /\ \E k \in 1..Len(calls), answer \in FetchAnswers :
          /\ calls[k] = "awaiting"
          /\ IF answer = "ok"
             THEN /\ calls' = [calls EXCEPT ![k] = "ok"]
                  /\ data' = [call |-> k]
                  /\ lastUpdate' = eventCount + 1
                  /\ error' = error
             ELSE /\ calls' = [calls EXCEPT ![k] = "failed"]
                  /\ error' = IF answer = "notok" THEN "Failed to fetch"
                              ELSE "NetworkError"
                  /\ data' = <<>>
                  /\ lastUpdate' = lastUpdate
    /\ loading' = FALSE
    /\ UNCHANGED <<pc, marketData, candles, rangePredictions, marketAssessment,
                   tradingZones, response, args, result, fetches, wsConnected,
                   liquidationClusters, socketVars>>

\* fetchAnalysis after its await: the answer of fetch is ok, not ok, or a
\* rejection
FetchAnalysisSettle ==
    /\ pc = "dashboard"
    /\ \E k \in 1..Len(calls), answer \in FetchAnswers :
          /\ calls[k] = "awaiting"
          /\ IF answer = "ok"
             THEN /\ calls' = [calls EXCEPT ![k] = "ok"]
                  /\ data' = [call |-> k]
                  /\ lastUpdate' = eventCount + 1
                  /\ error' = error
             ELSE /\ calls' = [calls EXCEPT ![k] = "failed"]
                  /\ error' = IF answer = "notok" THEN "Failed to fetch"
                              ELSE "NetworkError"
                  /\ UNCHANGED <<data, lastUpdate>>
    /\ loading' = FALSE
    /\ UNCHANGED <<pc, marketData, candles, rangePredictions, marketAssessment,
                   tradingZones, response, args, result, fetches, wsConnected,
                   liquidationClusters, socketVars>>

NextDashboard ==
    \/ Mount
    \/ IntervalTick
    \/ Refresh
    \/ FetchAnalysisSettle

SpecDashboard == InitDashboard /\ [][NextDashboard]_vars

(***************************************************************************)
(* calculateEMA (three revisions) and calculateRSI on short price series    *)
(***************************************************************************)
MaxSeriesLen == 4
MaxPeriod == 3

SeriesPrices == {99 * PriceScale, 100 * PriceScale, 101 * PriceScale + 10}

PriceSeries == UNION {[1..n -> SeriesPrices] : n \in 1..MaxSeriesLen}

InitTechnicals ==
    /\ pc = "technicals.call"
    /\ args \in {[prices |-> ps, period |-> p] : ps \in PriceSeries, p \in 1..MaxPeriod}
    /\ result = <<>>
    /\ marketData = <<>>
    /\ candles = <<>>
    /\ rangePredictions = <<>>
    /\ marketAssessment = <<>>
    /\ tradingZones = <<>>
    /\ response = <<>>
    /\ fetches = <<>>
    /\ wsConnected = FALSE
    /\ liquidationClusters = <<>>
    /\ sockets = <<>>
    /\ timers = 0
    /\ data = <<>>
    /\ loading = TRUE
    /\ error = NoError
    /\ lastUpdate = 0
    /\ calls = <<>>

\* the same call made to each revision of calculateEMA
CalculateEMA ==
    /\ pc = "technicals.call"
    /\ result' = [quant |-> calculateEMA(args.prices, args.period),
                  live |-> calculateEMALive(args.prices, args.period),
                  fixed |-> calculateEMAFixed(args.prices, args.period)]
    /\ pc' = "ema.return"
    /\ UNCHANGED <<marketData, candles, rangePredictions, marketAssessment,
                   tradingZones, response, args,
                   fetches, wsConnected, liquidationClusters,
                   socketVars, dashboardVars>>

CalculateRSI ==
    /\ pc = "technicals.call"
    /\ result' = calculateRSI(args.prices, args.period)
    /\ pc' = "rsi.return"
    /\ UNCHANGED <<marketData, candles, rangePredictions, marketAssessment,
                   tradingZones, response, args,
                   fetches, wsConnected, liquidationClusters,
                   socketVars, dashboardVars>>

NextTechnicals == CalculateEMA \/ CalculateRSI

SpecTechnicals == InitTechnicals /\ [][NextTechnicals]_vars

(***************************************************************************)
(* Properties                                                              *)
(***************************************************************************)
\* a <= b of the source: false as soon as one side is NaN
Le(a, b) == a # NaN /\ b # NaN /\ a <= b

Predictions == {rangePredictions[i] : i \in 1..Len(rangePredictions)}

\* every open, high, low and close of the window equals price
isFlatAt(cs, price) ==
    \A i \in 1..Len(cs) :
        cs[i].open = price /\ cs[i].high = price /\ cs[i].low = price /\ cs[i].close = price

\* the handler has produced its trading zones
zonesReady == pc = "respond" \/ (pc = "done" /\ response.success)

\* C1: every RangePrediction returned by calculatePriceRange satisfies
\* range.low <= range.center <= range.high.
C1_RangeOrdering ==
    \A p \in Predictions :
        Le(p.range.low, p.range.center) /\ Le(p.range.center, p.range.high)

\* C2 as stated: anchoring never widens, the anchored interval
\* [rangeLow, rangeHigh] lies inside the pre-anchoring interval
\* [centerPrice - adjustedWidth/2, centerPrice + adjustedWidth/2].
C2_AnchoringNeverWidens ==
    \A p \in Predictions :
        /\ p.trace.rangeLow = p.trace.initialLow
              \/ Gt(p.trace.rangeLow, p.trace.initialLow)
        /\ p.trace.rangeHigh = p.trace.initialHigh
              \/ Lt(p.trace.rangeHigh, p.trace.initialHigh)

\* C2 as amended: anchoring never narrows, each anchored bound is the
\* pre-anchoring bound or a structure level strictly outside it, so the
\* pre-anchoring interval lies inside the anchored interval.
C2_AnchoringNeverNarrows ==
    \A p \in Predictions :
        /\ p.trace.rangeLow = p.trace.initialLow
              \/ Lt(p.trace.rangeLow, p.trace.initialLow)
        /\ p.trace.rangeHigh = p.trace.initialHigh
              \/ Gt(p.trace.rangeHigh, p.trace.initialHigh)

\* a prediction whose two bounds were both moved by anchoring
C2_BothBoundsAnchored ==
    \E p \in Predictions :
        /\ Lt(p.trace.rangeLow, p.trace.initialLow)
        /\ Gt(p.trace.rangeHigh, p.trace.initialHigh)

\* C3: calculateConfidence returns a value c with 0.40 <= c <= 0.95, also
\* when olderVol is 0.
C3_ConfidenceBounds ==
    \A p \in Predictions :
        /\ Le((RatioScale * 40) \div 100, p.trace.confidence)
        /\ Le(p.trace.confidence, (RatioScale * 95) \div 100)

\* C4: the five zones are contiguous and cover [low, high] of the prediction
\* they were generated from: strongBuyZone.low is range.low,
\* strongSellZone.high is range.high, and each zone's high is the next zone's
\* low.  Bounds are compared as values, a NaN bound being the same value on
\* both sides.
C4_ZonePartition ==
    zonesReady =>
        LET z == tradingZones
            r == rangePredictions[2].range
        IN  /\ z.strongBuyZone.low = r.low
            /\ z.strongBuyZone.high = z.buyZone.low
            /\ z.buyZone.high = z.neutralZone.low
            /\ z.neutralZone.high = z.sellZone.low
            /\ z.sellZone.high = z.strongSellZone.low
            /\ z.strongSellZone.high = r.high

\* zones generated from a prediction with low < high whose inner edges are
\* strictly between the bounds
C4_ZonesOfProperRange ==
    /\ zonesReady
    /\ Lt(rangePredictions[2].range.low, tradingZones.strongBuyZone.high)
    /\ Lt(tradingZones.strongBuyZone.high, tradingZones.buyZone.high)
    /\ Lt(tradingZones.strongSellZone.low, rangePredictions[2].range.high)

\* C5: calculateMomentum returns a value m with -1 <= m <= 1, also when the
\* ATR of the last 10 candles is 0.
C5_MomentumBounds ==
    \A p \in Predictions :
        Le(0 - RatioScale, p.trace.momentum) /\ Le(p.trace.momentum, RatioScale)

\* C6: degenerate arithmetic is guarded, no NaN or Infinity reaches a numeric
\* field of the RangePrediction.
C6_NoNaNInPrediction ==
    \A p \in Predictions :
        /\ isFinite(p.range.low) /\ isFinite(p.range.high)
        /\ isFinite(p.range.center) /\ isFinite(p.range.width)
        /\ isFinite(p.range.widthPercent)
        /\ isFinite(p.confidence)
        /\ isFinite(p.volatility.realized) /\ isFinite(p.volatility.projected)
        /\ isFinite(p.regime.strength) /\ isFinite(p.regime.adx)
        /\ isFinite(p.regime.bbWidth)
        /\ isFinite(p.momentum.value)

\* C7: for a flat window (every open/high/low/close = 100), price = 100 and
\* horizon = 1, realizedVol = projectedVol = adjustedWidth = 0 and
\* range.low = range.high = range.center = 100.
C7_FlatScenario ==
    (Len(rangePredictions) >= 1 /\ marketData.price = 100 * PriceScale
        /\ isFlatAt(candles, 100 * PriceScale)) =>
        LET p == rangePredictions[1]
        IN  /\ p.horizonHours = 1
            /\ p.trace.realizedVol = 0
            /\ p.trace.projectedVol = 0
            /\ p.trace.adjustedWidth = 0
            /\ p.range.low = 100 * PriceScale
            /\ p.range.high = 100 * PriceScale
            /\ p.range.center = 100 * PriceScale

\* C8: for a 30-candle window whose closes rise strictly from 100 to 130 and
\* whose ADX is above 25, detectRegime returns type 'trend' and direction 'up'.
C8_RisingIsUptrend ==
    (pc = "regime.return" /\ Gt(result.adx, 25 * PctScale)) =>
        (result.type = "trend" /\ result.direction = "up")

\* C9 as stated: for every low and high, with width = high - low, the price
\* low is in the 'Strong Buy Zone' and the price high in the 'Strong Sell Zone'.
C9_BoundsInExtremeZones ==
    pc = "zone.return" =>
        /\ args.price = args.low => result = "Strong Buy Zone"
        /\ args.price = args.high => result = "Strong Sell Zone"

\* C9 as amended: for all finite low # high, with width = high - low, the
\* price low is in the 'Strong Buy Zone' and the price high in the
\* 'Strong Sell Zone'; for low = high both calls answer 'Strong Sell Zone'.
C9_DistinctBoundsInExtremeZones ==
    pc = "zone.return" =>
        /\ (isFinite(args.low) /\ isFinite(args.high) /\ args.low # args.high) =>
              /\ args.price = args.low => result = "Strong Buy Zone"
              /\ args.price = args.high => result = "Strong Sell Zone"
        /\ (isFinite(args.low) /\ args.low = args.high /\ args.price = args.low) =>
              result = "Strong Sell Zone"

\* the call with price = low below high has returned
C9_PriceAtLow ==
    /\ pc = "zone.return"
    /\ args.price = args.low
    /\ Lt(args.low, args.high)
    /\ result = "Strong Buy Zone"

\* C10: a price below low is in the 'Strong Buy Zone' and a price above high
\* in the 'Strong Sell Zone', for every range low <= high, the empty-width
\* range included.
C10_OutsideSaturates ==
    (pc = "zone.return" /\ Le(args.low, args.high)) =>
        /\ Lt(args.price, args.low) => result = "Strong Buy Zone"
        /\ Gt(args.price, args.high) => result = "Strong Sell Zone"

\* the call with a price below the bounds of a zero-width range has returned
C10_PriceBelowEmptyRange ==
    /\ pc = "zone.return"
    /\ Lt(args.price, args.low)
    /\ args.low = args.high
    /\ result = "Strong Buy Zone"

\* C11 as stated: for any two horizons h1 < h2 over one candle window, price
\* and regime, projectedVol is strictly larger for h2, and so is the
\* pre-anchoring adjustedWidth.
C11_HorizonStrictlyWidens ==
    \A i \in 1..Len(rangePredictions) : \A j \in 1..Len(rangePredictions) :
        i < j =>
            /\ Lt(rangePredictions[i].trace.projectedVol,
                  rangePredictions[j].trace.projectedVol)
            /\ Lt(rangePredictions[i].trace.adjustedWidth,
                  rangePredictions[j].trace.adjustedWidth)

\* C11 as amended: projectedVol and adjustedWidth never decrease with the
\* horizon, and both are strictly larger for the longer horizon whenever
\* realizedVol is above 0; with realizedVol = 0 both are 0 for every horizon.
C11_HorizonWidensPositiveVol ==
    \A i \in 1..Len(rangePredictions) : \A j \in 1..Len(rangePredictions) :
        i < j =>
            LET a == rangePredictions[i].trace
                b == rangePredictions[j].trace
            IN  /\ Le(a.projectedVol, b.projectedVol)
                /\ Le(a.adjustedWidth, b.adjustedWidth)
                /\ Gt(a.realizedVol, 0) =>
                      /\ Lt(a.projectedVol, b.projectedVol)
                      /\ Lt(a.adjustedWidth, b.adjustedWidth)
                /\ a.realizedVol = 0 =>
                      /\ a.projectedVol = 0 /\ b.projectedVol = 0
                      /\ a.adjustedWidth = 0 /\ b.adjustedWidth = 0

\* all six horizons projected from a window of positive realized volatility
C11_SixHorizonsPositiveVol ==
    /\ Len(rangePredictions) = Len(horizons)
    /\ Gt(rangePredictions[1].trace.realizedVol, 0)
    /\ Lt(rangePredictions[1].trace.adjustedWidth, rangePredictions[6].trace.adjustedWidth)

\* C12: calculateEMA(series, period) with series.length < period returns the
\* last element of series exactly, in every revision of calculateEMA.
C12_ShortSeriesGivesLast ==
    (pc = "ema.return" /\ Len(args.prices) < args.period) =>
        /\ result.quant = args.prices[Len(args.prices)]
        /\ result.live = args.prices[Len(args.prices)]
        /\ result.fixed = args.prices[Len(args.prices)]

\* C13: calculateRSI returns a value in [0, 100]; exactly 100 when none of
\* the first period deltas is negative, and exactly 50 when the series has
\* fewer than period + 1 values.
C13_RSIBounds ==
    pc = "rsi.return" =>
        /\ 0 <= result /\ result <= 100 * 10
        /\ Len(args.prices) < args.period + 1 => result = 50 * 10
        /\ (/\ Len(args.prices) >= args.period + 1
            /\ \A i \in 1..args.period : args.prices[i + 1] >= args.prices[i])
              => result = 100 * 10

\* an RSI of 100 returned for a series with a rise and no fall among its
\* first period deltas
C13_RisingSeriesScoresFull ==
    /\ pc = "rsi.return"
    /\ Len(args.prices) >= args.period + 1
    /\ \A i \in 1..args.period : args.prices[i + 1] >= args.prices[i]
    /\ \E i \in 1..args.period : args.prices[i + 1] > args.prices[i]
    /\ result = 100 * 10

\* C14: for every candle window the Regime returned by detectRegime has
\* type in {trend, range, expansion, compression}, direction in {up, down,
\* neutral} and strength in [0, 1].
C14_RegimeRanges ==
    pc = "regime.return" =>
        /\ result.type \in {"trend", "range", "expansion", "compression"}
        /\ result.direction \in {"up", "down", "neutral"}
        /\ Le(0, result.strength) /\ Le(result.strength, RatioScale)

\* a regime relabelled by the Bollinger check whose strength is strictly
\* inside (0.5, 1)
C14_BandStrengthInside ==
    /\ pc = "regime.return"
    /\ result.type \in {"expansion", "compression"}
    /\ Gt(result.strength, RatioScale \div 2)
    /\ Lt(result.strength, RatioScale)

\* the fields of a RangePrediction other than generatedAt
sameOutput(a, b) ==
    /\ a.range = b.range
    /\ a.confidence = b.confidence
    /\ a.volatility = b.volatility
    /\ a.regime = b.regime
    /\ a.momentum = b.momentum
    /\ a.invalidations = b.invalidations

sameInput(a, b) ==
    /\ a.candles = b.candles
    /\ a.currentPrice = b.currentPrice
    /\ a.horizonHours = b.horizonHours

C19_ClustersBounded == Len(liquidationClusters) <= MaxMessages - 1

\* low <= min(open, close) and high >= max(open, close) for every candle
wellFormed(cs) ==
    \A j \in 1..Len(cs) :
        /\ cs[j].low <= cs[j].open /\ cs[j].low <= cs[j].close
        /\ cs[j].high >= cs[j].open /\ cs[j].high >= cs[j].close

\* C16: the candles returned by generateRealisticCandles are ordered oldest
\* first with strictly increasing timestamps.
C16_TimestampsIncrease ==
    pc = "generate.return" =>
        \A j \in 1..(Len(result.candles) - 1) :
            result.candles[j].timestamp < result.candles[j + 1].timestamp

\* C17: generateRealisticCandles(currentPrice, count) with currentPrice > 0
\* returns exactly count candles, the last candle closes at currentPrice, and
\* every candle has low <= min(open, close) and high >= max(open, close),
\* before and after the final adjustment.
C17_GeneratedCandlesWellFormed ==
    pc = "generate.return" =>
        /\ Len(result.candles) = args.count
        /\ result.candles[Len(result.candles)].close = args.currentPrice
        /\ wellFormed(result.generated)
        /\ wellFormed(result.candles)

\* two candles returned, the older one with wicks on both sides of a body
C17_TwoCandlesWithWicks ==
    /\ pc = "generate.return"
    /\ Len(result.candles) = 2
    /\ result.candles[1].open # result.candles[1].close
    /\ result.candles[1].low < result.candles[1].open
    /\ result.candles[1].low < result.candles[1].close
    /\ result.candles[1].high > result.candles[1].open
    /\ result.candles[1].high > result.candles[1].close

\* C18: the handler runs calculatePriceRange exactly once per horizon of
\* [1, 2, 4, 6, 12, 24] against the same candle window and price, returns the
\* predictions in horizon order with rangePredictions[i].horizonHours equal
\* to the i-th horizon, and derives the trading zones from the prediction of
\* the 2nd horizon only.
C18_OnePredictionPerHorizon ==
    /\ Len(args) = Len(rangePredictions)
    /\ Len(args) <= Len(horizons)
    /\ \A i \in 1..Len(args) :
          /\ args[i] = [candles |-> candles, currentPrice |-> marketData.price,
                        horizonHours |-> horizons[i]]
          /\ rangePredictions[i].horizonHours = horizons[i]
    /\ pc \in {"assess", "zones", "respond"} => Len(args) = Len(horizons)
    /\ response # <<>> /\ response.success => Len(args) = Len(horizons)
    /\ pc = "respond" =>
          /\ \A i \in 1..Len(horizons) :
                rangePredictions[i] = calculatePriceRange(args[i].candles,
                                        args[i].currentPrice, args[i].horizonHours)
          /\ tradingZones = generateTradingZones(rangePredictions[2], marketData.price)

\* a successful answer whose zones differ from what the 1h and the 4h
\* predictions would give
C18_ZonesOfSecondHorizonOnly ==
    /\ pc = "done"
    /\ response.success
    /\ Len(rangePredictions) = 6
    /\ tradingZones # generateTradingZones(rangePredictions[1], marketData.price)
    /\ tradingZones # generateTradingZones(rangePredictions[3], marketData.price)

\* C20: price sources are tried in fixed order, CryptoCompare only after
\* CoinCap threw or returned no data; the first source that returns data
\* sets the snapshot and its source label; when both fail the candles are
\* never generated, calculatePriceRange is never called, and the handler
\* answers 500 with success = false.
C20_SourceOrderAndFailure ==
    /\ Len(fetches) <= 2
    /\ fetches # <<>> => fetches[1].source = "CoinCap"
    /\ Len(fetches) = 2 => /\ fetches[1].outcome # "data"
                           /\ fetches[2].source = "CryptoCompare"
    /\ marketData # <<>> => /\ fetches[Len(fetches)].outcome = "data"
                            /\ marketData.source = fetches[Len(fetches)].source
    /\ (fetches # <<>> /\ fetches[Len(fetches)].outcome # "data") =>
          /\ marketData = <<>> /\ candles = <<>>
          /\ rangePredictions = <<>> /\ args = <<>>
          /\ pc \in {"failed", "done"}
          /\ pc = "done" => response = [status |-> 500, success |-> FALSE]
    /\ (response # <<>> /\ response.status = 500) =>
          /\ Len(fetches) = 2 /\ fetches[2].outcome # "data"

\* CoinCap threw, CryptoCompare had no data, and the handler has answered
C20_BothSourcesFailed ==
    /\ pc = "done"
    /\ Len(fetches) = 2
    /\ fetches[1].outcome = "throw"
    /\ fetches[2].outcome = "nodata"
    /\ response.status = 500

\* C21: in detectRegime the Bollinger-width override is applied last and
\* replaces only type: the direction and the strength computed by the ADX
\* classification are returned unchanged.
C21_OverrideKeepsDirectionAndStrength ==
    pc = "regime.return" =>
        /\ result.direction = classifyByADX(candles).direction
        /\ result.strength = toFixed(classifyByADX(candles).strength, RatioScale \div 100)

\* index i of prices is the strict maximum ('high') or strict minimum ('low')
\* of the 11 values around it
strictSwingAt(prices, type, i) ==
    \A j \in (i - 5)..(i + 5) :
        j # i => IF type = "high" THEN prices[j] < prices[i] ELSE prices[j] > prices[i]

\* the values at the strict swing indices from index i on, in time order
RECURSIVE strictSwingsFrom(_, _, _)
strictSwingsFrom(prices, type, i) ==
    IF i > Len(prices) - 5 THEN <<>>
    ELSE (IF strictSwingAt(prices, type, i) THEN <<prices[i]>> ELSE <<>>)
         \o strictSwingsFrom(prices, type, i + 1)

\* C22: findSwingPoints returns, in time order, exactly the values at indices
\* whose value is the strict maximum (for 'high') or strict minimum (for
\* 'low') of its 11-element window; an index whose value ties with another
\* element of its window is not reported.
C22_OnlyStrictSwings ==
    pc = "swings.return" => result = strictSwingsFrom(args.prices, args.type, 6)

\* some swing point of xs lies within 2% of price
withinTwoPercent(xs, price) ==
    \E j \in 1..Len(xs) : /\ xs[j] >= RoundDiv(price * 98, 100)
                          /\ xs[j] <= RoundDiv(price * 102, 100)

\* the confidence of the same window, regime and price with one swing low 5%
\* below the price and one swing high 5% above it
confidenceFarFromStructure ==
    calculateConfidence(candles, [strength |-> args.strength],
                        [swingLows |-> <<95 * PriceScale>>,
                         swingHighs |-> <<105 * PriceScale>>],
                        args.currentPrice)

\* C23: calculateConfidence adds the +0.10 structure bonus only when the
\* price is within 2% of some recent swing low or swing high; when no swing
\* point lies within 2% of the price, in particular when both lists are
\* empty, no bonus is added.
C23_BonusOnlyNearSwing ==
    (/\ pc = "confidence.return"
     /\ ~withinTwoPercent(args.swingLows, args.currentPrice)
     /\ ~withinTwoPercent(args.swingHighs, args.currentPrice))
        => result = confidenceFarFromStructure

\* the zone of zones that the label names
zoneNamed(zones, label) ==
    IF label = "Strong Buy Zone" THEN zones.strongBuyZone
    ELSE IF label = "Buy Zone" THEN zones.buyZone
    ELSE IF label = "Neutral Zone" THEN zones.neutralZone
    ELSE IF label = "Sell Zone" THEN zones.sellZone
    ELSE zones.strongSellZone

\* C24 as stated: for a prediction with low < high and a price with
\* low <= price <= high, the currentZone label names a zone whose reported
\* [low, high] band contains the price.
C24_CurrentZoneContainsPrice ==
    pc = "zones.return" =>
        /\ zoneNamed(result, result.currentZone).low <= args.price
        /\ args.price <= zoneNamed(result, result.currentZone).high

\* C24 as amended: for a prediction with low < high and a price with
\* low <= price <= high, the currentZone label names the zone whose share of
\* the width contains (price - low) / width; the reported band edges are
\* rounded to cents, so the reported band contains the price to within half
\* a cent.
C24_CurrentZoneContainsPriceToHalfCent ==
    pc = "zones.return" =>
        /\ zoneNamed(result, result.currentZone).low - (PriceScale \div 200) <= args.price
        /\ args.price <= zoneNamed(result, result.currentZone).high + (PriceScale \div 200)

\* a price labelled 'Buy Zone' that lies a fraction of a cent below the
\* reported low of the buy zone
C24_PriceJustBelowReportedBand ==
    /\ pc = "zones.return"
    /\ result.currentZone = "Buy Zone"
    /\ args.price < result.buyZone.low
    /\ args.price >= result.buyZone.low - (PriceScale \div 200)

\* C25: after any sequence of open, close, message and reconnect-timer
\* events, at most one liquidation WebSocket that has not closed exists, and
\* wsConnected is true only while such a socket is open.
C25_OneLiveSocket ==
    pc = "socket" =>
        /\ Cardinality({k \in 1..Len(sockets) : sockets[k] # "closed"}) <= 1
        /\ wsConnected => \E k \in 1..Len(sockets) : sockets[k] = "open"

\* the first socket has closed, the second is open and has delivered a message
C25_ReconnectedAndOpen ==
    /\ pc = "socket"
    /\ Len(sockets) = 2
    /\ sockets[1] = "closed"
    /\ sockets[2] = "open"
    /\ wsConnected
    /\ liquidationClusters # <<>>

\* C26: every close of the liquidation WebSocket is eventually followed by a
\* new connection attempt; the wsConnected guard of connectLiquidationWS never
\* suppresses it.
C26_CloseLeadsToReconnect ==
    \A n \in 1..MaxSockets :
        (pc = "socket" /\ Len(sockets) = n /\ sockets[n] = "closed")
            ~> (Len(sockets) > n)

\* the third socket is connecting after the first two have closed, with no
\* timer left
C26_ThirdAttempt ==
    /\ pc = "socket"
    /\ Len(sockets) = 3
    /\ sockets[3] = "connecting"
    /\ timers = 0
    /\ ~wsConnected

\* the calls that have succeeded
succeeded == {k \in 1..Len(calls) : calls[k] = "ok"}

\* C27: in the dashboard, under any interleaving of the mount fetch, the
\* interval fetches and manual refreshes, loading is true whenever some
\* fetchAnalysis call is still awaiting its response, and the displayed data
\* is the result of the most recently started fetch that succeeded.
C27_LoadingAndLatestData ==
    pc = "dashboard" =>
        /\ (\E k \in 1..Len(calls) : calls[k] = "awaiting") => loading
        /\ succeeded = {} => data = <<>>
        /\ succeeded # {} => /\ data # <<>>
                             /\ \A k \in succeeded : k <= data.call

\* C28: a fetchAnalysis call that fails sets error and leaves data and
\* lastUpdate unchanged; every call clears error when it starts and leaves
\* loading false when it ends, whether it succeeded or failed.
C28_FetchAnalysisFrame ==
    [][pc = "dashboard" =>
         /\ Len(calls') > Len(calls) => error' = NoError
         /\ \A k \in 1..Len(calls) :
               /\ (calls[k] = "awaiting" /\ calls'[k] = "failed") =>
                     /\ error' # NoError
                     /\ data' = data
                     /\ lastUpdate' = lastUpdate
                     /\ ~loading'
               /\ (calls[k] = "awaiting" /\ calls'[k] = "ok") => ~loading']_vars

\* the first call succeeded and the second failed: the data of the first is
\* still shown beside the error of the second
C28_FailureAfterSuccess ==
    /\ pc = "dashboard"
    /\ Len(calls) = 2
    /\ calls[1] = "ok"
    /\ calls[2] = "failed"
    /\ data = [call |-> 1]
    /\ lastUpdate = 2
    /\ error = "Failed to fetch"
    /\ ~loading

\* a quarter of the adjustedWidth of prediction p
quarterWidth(p) == Mul(p.trace.adjustedWidth, 25, 100)

\* each anchored bound of p lies outside the initial bound by less than a
\* quarter of adjustedWidth, and the final width is below 1.5 adjustedWidth
anchoredWithinQuarter(p) ==
    /\ Lt(Sub(p.trace.initialLow, quarterWidth(p)), p.trace.rangeLow)
    /\ Le(p.trace.rangeLow, p.trace.initialLow)
    /\ Le(p.trace.initialHigh, p.trace.rangeHigh)
    /\ Lt(p.trace.rangeHigh, Add(p.trace.initialHigh, quarterWidth(p)))
    /\ Lt(Sub(p.trace.rangeHigh, p.trace.rangeLow),
          Add(Sub(p.trace.initialHigh, p.trace.initialLow), 2 * quarterWidth(p)))

\* C29 as stated: anchoring moves each bound by strictly less than
\* 0.25 x adjustedWidth, rangeLow - 0.25 x adjustedWidth < anchoredLow <=
\* rangeLow and rangeHigh <= anchoredHigh < rangeHigh + 0.25 x adjustedWidth,
\* so the final width is below 1.5 x adjustedWidth.
C29_AnchoringWithinQuarter ==
    \A p \in Predictions : anchoredWithinQuarter(p)

\* C29 as amended: the strict bounds hold whenever adjustedWidth is a number
\* above 0 and the initial bounds are numbers; when adjustedWidth is 0 or
\* NaN, or the initial bounds are NaN, no level qualifies and both bounds
\* are returned unchanged.
C29_AnchoringWithinQuarterOfPositiveWidth ==
    \A p \in Predictions :
        IF /\ isFinite(p.trace.adjustedWidth) /\ p.trace.adjustedWidth > 0
           /\ isFinite(p.trace.initialLow) /\ isFinite(p.trace.initialHigh)
        THEN anchoredWithinQuarter(p)
        ELSE /\ p.trace.rangeLow = p.trace.initialLow
             /\ p.trace.rangeHigh = p.trace.initialHigh

\* a prediction of positive width whose low was moved to a support while no
\* resistance qualified for its high
C29_LowAnchoredHighUnchanged ==
    \E p \in Predictions :
        /\ isFinite(p.trace.adjustedWidth) /\ p.trace.adjustedWidth > 0
        /\ Lt(p.trace.rangeLow, p.trace.initialLow)
        /\ p.trace.rangeHigh = p.trace.initialHigh

\* C30: within one run the RangePredictions of all horizons carry the same
\* regime, momentum value and bias, realized volatility, volatility state,
\* confidence and range.center; only the projected volatility, the range
\* bounds and width, and the invalidation texts depend on the horizon.
C30_HorizonIndependentFields ==
    \A i \in 1..Len(rangePredictions) : \A j \in 1..Len(rangePredictions) :
        /\ rangePredictions[i].regime = rangePredictions[j].regime
        /\ rangePredictions[i].momentum = rangePredictions[j].momentum
        /\ rangePredictions[i].volatility.realized = rangePredictions[j].volatility.realized
        /\ rangePredictions[i].volatility.state = rangePredictions[j].volatility.state
        /\ rangePredictions[i].confidence = rangePredictions[j].confidence
        /\ rangePredictions[i].range.center = rangePredictions[j].range.center

\* a run whose 1h and 24h predictions differ in projected volatility, in both
\* bounds and in the invalidation levels
C30_HorizonsDifferInBounds ==
    /\ Len(rangePredictions) = Len(horizons)
    /\ rangePredictions[1].volatility.projected # rangePredictions[6].volatility.projected
    /\ rangePredictions[1].range.low # rangePredictions[6].range.low
    /\ rangePredictions[1].range.high # rangePredictions[6].range.high
    /\ rangePredictions[1].invalidations # rangePredictions[6].invalidations

====
